---- MODULE Spec2Model ----
(***************************************************************************)
(* Cross-Vault auth backend: the login pipeline (role and configuration    *)
(* reads, unwrap, remote lookup, metadata matching, credential mint) and   *)
(* the TLS configuration updater (start, stop, periodic refresh, refresh   *)
(* on configuration write).                                                *)
(***************************************************************************)
EXTENDS Integers, Sequences, FiniteSets, TLC

(***************************************************************************)
(* Values                                                                  *)
(***************************************************************************)

\* An optional value is a sequence of length 0 (nil / absent) or 1.
None == <<>>

Some(x) == <<x>>

\* The login methods of path_login.go, and one value outside the enumeration.
WrappedTokenFull == "token-full"

WrappedTokenOnly == "token-only"

WrappedAccessorOnly == "accessor-only"

tokenLookupPath == "auth/token/lookup"

tokenPayloadKey == "token"

accessorLookupPath == "auth/token/lookup-accessor"

accessorPayloadKey == "accessor"

Methods == {WrappedTokenFull, WrappedTokenOnly, WrappedAccessorOnly, "bogus"}

\* Entity identifiers; "" is the identifier of a token bound to no entity.
EntityIDs == {"", "E1", "E2"}

MetaKeys == {"env", "team"}

MetaValues == {"", "prod"}

\* The key/value pairs of a map[string]string: a set of pairs, one per key.
KVSets == {kv \in SUBSET (MetaKeys \X MetaValues) :
             \A p \in kv, q \in kv : p[1] = q[1] => p = q}

\* A Go map[string]string: the nil map, or an allocated map.
NilMap == [isNil |-> TRUE, kv |-> {}]

MakeMap(kv) == [isNil |-> FALSE, kv |-> kv]

GoMaps == {NilMap} \cup {MakeMap(kv) : kv \in KVSets}

MapKeys(m) == {p[1] : p \in m.kv}

\* metadata[key] of a Go map: the stored value, or the zero value "".
MapGet(m, key) == IF key \in MapKeys(m)
                  THEN (CHOOSE p \in m.kv : p[1] = key)[2]
                  ELSE ""

\* reflect.DeepEqual on two maps: both nil or both non-nil, and same entries.
DeepEqual(a, b) == a.isNil = b.isNil /\ a.kv = b.kv

\* resp.Data["meta"] of a lookup response: JSON null (or no such key), an
\* object of strings, or a value that is not an object of strings.
MetaNull == [kind |-> "null", kv |-> {}]

MetaObj(kv) == [kind |-> "object", kv |-> kv]

MetaBad == [kind |-> "bad", kv |-> {}]

MetaVals == {MetaNull, MetaBad} \cup {MetaObj(kv) : kv \in KVSets}

\* json.Marshal of the meta value followed by json.Unmarshal into a map made
\* with make(map[string]string): null sets the map to nil, an object of
\* strings fills the allocated map, anything else is an error.
jsonMeta(meta) ==
    CASE meta.kind = "null"   -> [err |-> FALSE, m |-> NilMap]
      [] meta.kind = "object" -> [err |-> FALSE, m |-> MakeMap(meta.kv)]
      [] OTHER                -> [err |-> TRUE,  m |-> MakeMap({})]

(***************************************************************************)
(* Role entries and the matching policy (validateSecret)                   *)
(***************************************************************************)

RoleEntries == [EntityID : EntityIDs, EntityMeta : GoMaps, StrictMetaVerify : BOOLEAN]

\* The data of a lookup response: entity_id (absent or a string) and meta.
LookupData == [entity_id : {None} \cup {Some(e) : e \in EntityIDs}, meta : MetaVals]

lookupPath_token(method) == tokenLookupPath

\* Lookup endpoint and payload key chosen from the method.
lookupPath(method) == IF method = WrappedAccessorOnly THEN accessorLookupPath ELSE tokenLookupPath

lookupPayloadKey(method) == IF method = WrappedAccessorOnly THEN accessorPayloadKey ELSE tokenPayloadKey

EntityGate_skip(r, data) == TRUE

\* entityID != role.EntityID compares an interface value with a string.
EntityGate(r, data) == data.entity_id = Some(r.EntityID)

StrictGate_skip(r, metadata) == TRUE

\* if role.StrictMetaVerify { if !reflect.DeepEqual(metadata, role.EntityMeta) ... }
StrictGate(r, metadata) == r.StrictMetaVerify => DeepEqual(metadata, r.EntityMeta)

SubsetGate_strict(r, metadata) == metadata.kv = r.EntityMeta.kv

\* for key, value := range role.EntityMeta { v := metadata[key]; value != v }
SubsetGate(r, metadata) == \A p \in r.EntityMeta.kv : p[2] = MapGet(metadata, p[1])

\* validateSecret after the remote lookup returned data: (validated, err).
validateResponse(r, data) ==
    IF ~EntityGate(r, data) THEN [validated |-> FALSE, err |-> FALSE]
    ELSE LET j == jsonMeta(data.meta) IN
         IF j.err THEN [validated |-> FALSE, err |-> TRUE]
         ELSE IF ~StrictGate(r, j.m) THEN [validated |-> FALSE, err |-> FALSE]
         ELSE IF ~SubsetGate(r, j.m) THEN [validated |-> FALSE, err |-> FALSE]
         ELSE [validated |-> TRUE, err |-> FALSE]

(***************************************************************************)
(* State                                                                   *)
(***************************************************************************)

VARIABLES
    storedConfig,            \* storage entry "config": None or Some(config)
    storedRoles,             \* storage entries "role/<name>": name -> None or Some(role)
    httpClient,              \* b.httpClient and its transport
    tlsConfig,               \* b.tlsConfig
    tlsConfigUpdateRunning,  \* b.tlsConfigUpdateRunning
    tlsConfigUpdateCancel,   \* b.tlsConfigUpdateCancel: 0 (nil) or the context it cancels
    mu,                      \* b.mu: the task holding it in write mode, or Free
    tlsMu,                   \* b.tlsMu: the task holding it, or Free
    vc,                      \* b.vc: None or Some(client)
    reqCtx,                  \* b.ctx: 0 (nil) or the login call that created it
    reqCancel,               \* b.cancel: 0 (nil) or the login call whose context it cancels
    updCancelled,            \* updater contexts that are cancelled
    reqCancelled,            \* request contexts that are cancelled
    inits,                   \* the initialize calls
    loops,                   \* the updater goroutines, one per initialize call
    cw,                      \* the configuration write handler
    calls,                   \* the login calls
    lastRefresh,             \* configuration of the last refresh that returned nil
    vsRole,                  \* one function alone: the role it is given
    vsData,                  \* one function alone: the request or response data it is given
    vsOut,                   \* one function alone: None or Some(result)
    admin                    \* the request answered last and what it found, where kept

vars == <<storedConfig, storedRoles, httpClient, tlsConfig, tlsConfigUpdateRunning,
          tlsConfigUpdateCancel, mu, tlsMu, vc, reqCtx, reqCancel, updCancelled,
          reqCancelled, inits, loops, cw, calls, lastRefresh, vsRole, vsData, vsOut,
          admin>>

backendVars == <<storedConfig, storedRoles, httpClient, tlsConfig, tlsConfigUpdateRunning,
                 tlsConfigUpdateCancel, mu, tlsMu, vc, reqCtx, reqCancel, updCancelled,
                 reqCancelled, inits, loops, cw, calls, lastRefresh>>

vsVars == <<vsRole, vsData, vsOut>>

(***************************************************************************)
(* Bounds and input domains                                                *)
(***************************************************************************)

\* Number of initialize calls (each creates one updater context).
MaxInits == 2

\* Number of login calls.
MaxCalls == 2

InitIds == 1..MaxInits

CallIds == 1..MaxCalls

\* Cluster addresses: "" is the value of a write that does not supply one.
Clusters == {"", "https://leader"}

\* CA PEM texts: none, text holding no certificate, text holding certificate A.
PEMs == {"", "garbage", "pemA"}

\* Fields of a configuration write: cluster and ca_cert ("" when not
\* supplied), insecure_skip_verify, and namespace, absent or supplied.
ConfigInputs == [Cluster : Clusters, CACert : PEMs, InsecureSkipVerify : BOOLEAN,
                 Namespace : {None, Some("custom")}]

\* Role names a login may carry; "" is a request without the field.
RoleNames == {"", "sample", "SAMPLE", "ghost"}

\* Names under which roles are written and deleted.
RoleKeys == {"sample"}

\* Fields of a role write: each absent (None) or supplied.
RoleInputs == [entity_id : {None, Some("E1")},
               entity_meta : {None, Some({<<"env", "prod">>})},
               strict_meta_verify : {None, Some(TRUE)},
               token_ttl : {None, Some(1), Some(2)},
               token_max_ttl : {None, Some(1)}]

\* Data the leader cluster may return for a lookup.
LookupReplies == [entity_id : {Some("E1"), Some("E2")},
                  meta : {MetaNull, MetaObj({<<"env", "prod">>}),
                          MetaObj({<<"env", "prod">>, <<"team", "prod">>})}]

\* What the leader cluster may return for an unwrap: an error, a wrapped login
\* result (Auth set), or wrapped data with or without the key "secret".
UnwrapReplies == {"error", "auth", "data-secret", "data-other"}

(***************************************************************************)
(* Locks and tasks                                                         *)
(***************************************************************************)

Free == <<"free", 0>>

CfgW == <<"cfgw", 0>>

InitTask(k) == <<"init", k>>

LoopTask(k) == <<"loop", k>>

(***************************************************************************)
(* Requests and responses of the role and configuration handlers           *)
(***************************************************************************)

\* admin where the requests are not kept, and where they are kept and none
\* was answered yet.
Unkept == [on |-> FALSE, last |-> None, before |-> None]

Kept == [on |-> TRUE, last |-> None, before |-> None]

\* A handler goes on after its first checks, and returns later.
answered(out) ==
    admin' = IF admin.on THEN [admin EXCEPT !.last[1].out = out] ELSE admin

\* A handler returns: the request and its response become the last answered.
answer(handler, op, name, in, out) ==
    admin' = IF admin.on
             THEN [admin EXCEPT !.last = Some([handler |-> handler, op |-> op, name |-> name,
                                               in |-> in, out |-> out])]
             ELSE admin

(***************************************************************************)
(* Remote connection material                                              *)
(***************************************************************************)

\* x509.CertPool.AppendCertsFromPEM: the certificates found in the text.
AppendCertsFromPEM(pem) == IF pem = "pemA" THEN {"certA"} ELSE {}

\* A certificate pool object: its identity and the certificates it holds.
\* A pool allocated by a refresh differs in identity from the installed one.
NewCertPool(installed, certs) ==
    [id |-> IF installed = None THEN 0 ELSE 1 - installed[1].id, certs |-> certs]

\* (*x509.CertPool).Equal: a nil pool equals only nil; otherwise same certificates.
CertPoolEqual(installed, pool) == installed # None /\ installed[1].certs = pool.certs

validateHTTPClient_clientOnly ==
    IF ~httpClient.set THEN "HTTP client is not set" ELSE "ok"

\* validateHTTPClient: httpClient, then tlsConfig.
validateHTTPClient ==
    IF ~httpClient.set THEN "HTTP client is not set"
    ELSE IF ~tlsConfig.set THEN "TLS config is not set"
    ELSE "ok"

\* backend(): defaultHTTPClient() and defaultTLSConfig().
defaultHTTPClient == [set |-> TRUE, isHTTPTransport |-> TRUE, TLSClientConfig |-> FALSE]

defaultTLSConfig == [set |-> TRUE, RootCAs |-> None, InsecureSkipVerify |-> FALSE, flagOf |-> 0]

\* The TLS settings a remote call made through b.httpClient reads at this
\* instant: the transport's TLSClientConfig if set, else the platform default.
\* pool and flagOf name the refresh that built the pool and wrote the flag.
TLSSnapshot ==
    IF httpClient.TLSClientConfig /\ tlsConfig.RootCAs # None
    THEN [certs |-> tlsConfig.RootCAs[1].certs, insecure |-> tlsConfig.InsecureSkipVerify,
          pool |-> tlsConfig.RootCAs[1].id, flagOf |-> tlsConfig.flagOf]
    ELSE [certs |-> {}, insecure |-> FALSE, pool |-> 0, flagOf |-> 0]

(***************************************************************************)
(* Storage reads                                                           *)
(***************************************************************************)

ToLower_same(name) == name

\* strings.ToLower on the role names of the model.
ToLower(name) == IF name = "SAMPLE" THEN "sample" ELSE name

\* b.config: the stored configuration (None when nothing is stored).
config == storedConfig

\* b.role: the stored role under the lower-cased name (None when absent).
role(name) == IF ToLower(name) \in RoleKeys THEN storedRoles[ToLower(name)] ELSE None

\* The names of a role write or delete that address a key of the model.
WriteNames == {n \in RoleNames : ToLower(n) \in RoleKeys}

(***************************************************************************)
(* b.updateTLSConfig(config), run by a configuration write or by a tick    *)
(***************************************************************************)

poolUnchanged_never(installed, pool) == FALSE

poolUnchanged_always(installed, pool) == TRUE

\* if !b.tlsConfig.RootCAs.Equal(certPool)
poolUnchanged(installed, pool) == CertPoolEqual(installed, pool)

\* Under tlsMu: validate, build the pool from the PEM, compare with the
\* installed pool. "error": returns an error; "same": returns nil without a
\* swap; "swap": goes on to replace pool, flag and transport configuration.
updateOutcome(c) ==
    LET certPool == NewCertPool(tlsConfig.RootCAs, AppendCertsFromPEM(c.CACert)) IN
    IF validateHTTPClient # "ok" THEN "error"
    ELSE IF poolUnchanged(tlsConfig.RootCAs, certPool) THEN "same"
    ELSE IF ~httpClient.isHTTPTransport THEN "error"
    ELSE "swap"

\* b.tlsConfig.RootCAs = certPool
setRootCAs(c) ==
    tlsConfig' = [tlsConfig EXCEPT
        !.RootCAs = Some(NewCertPool(tlsConfig.RootCAs, AppendCertsFromPEM(c.CACert)))]

\* b.tlsConfig.InsecureSkipVerify = config.InsecureSkipVerify
setInsecureSkipVerify(c) ==
    tlsConfig' = [tlsConfig EXCEPT !.InsecureSkipVerify = c.InsecureSkipVerify,
                                   !.flagOf = tlsConfig.RootCAs[1].id]

\* transport.TLSClientConfig = b.tlsConfig
setTransportTLS == httpClient' = [httpClient EXCEPT !.TLSClientConfig = TRUE]

(***************************************************************************)
(* pathConfigWrite                                                         *)
(***************************************************************************)

\* The namespace of a written configuration: the one supplied, "root" when
\* none is.  The handlers in path_config.go at hand predate the field; its
\* handling follows the specification and TestConfig_Write / TestConfig_Read.
namespace(d) == IF d.Namespace = None THEN "root" ELSE d.Namespace[1]

newBackendConfig_secure(d) ==
    [Cluster |-> d.Cluster, CACert |-> d.CACert, InsecureSkipVerify |-> FALSE,
     Namespace |-> namespace(d)]

\* config := &crossVaultAuthBackendConfig{...} from the fields of the write.
newBackendConfig(d) ==
    [Cluster |-> d.Cluster, CACert |-> d.CACert, InsecureSkipVerify |-> d.InsecureSkipVerify,
     Namespace |-> namespace(d)]

\* The configurations a write can build.
Configs == {newBackendConfig(d) : d \in ConfigInputs}

clusterMissing_never(d) == FALSE

\* cluster := data.Get("cluster").(string); if cluster == ""
clusterMissing(d) == d.Cluster = ""

\* A configuration write is received: the request, and the stored
\* configuration and the installed pool and flag it finds.
received(c, out) ==
    admin' = IF admin.on
             THEN [admin EXCEPT
                     !.last = Some([handler |-> "pathConfigWrite", op |-> "update",
                                    name |-> "", in |-> c, out |-> out]),
                     !.before = Some([storedConfig |-> storedConfig,
                                      RootCAs |-> tlsConfig.RootCAs,
                                      InsecureSkipVerify |-> tlsConfig.InsecureSkipVerify])]
             ELSE admin

\* b.mu.Lock(); a write without cluster returns an error response; otherwise
\* the handler goes on to b.updateTLSConfig(config).
pathConfigWrite_Begin(c) ==
    /\ cw.pc = "idle"
    /\ mu = Free
    /\ IF clusterMissing(c)
       THEN /\ received(c, "cluster must be provided")
            /\ UNCHANGED <<cw, mu>>
       ELSE /\ cw' = [pc |-> "update", cfg |-> Some(newBackendConfig(c))]
            /\ mu' = CfgW
            /\ received(c, "pending")
    /\ UNCHANGED <<storedConfig, storedRoles, httpClient, tlsConfig, tlsConfigUpdateRunning,
                   tlsConfigUpdateCancel, tlsMu, vc, reqCtx, reqCancel, updCancelled,
                   reqCancelled, inits, loops, calls, lastRefresh, vsVars>>

\* b.updateTLSConfig(config): lock tlsMu, compare; an error is returned as an
\* error response (mu released), an unchanged pool goes on to the storage put.
pathConfigWrite_Update ==
    /\ cw.pc = "update"
    /\ tlsMu = Free
    /\ LET c == cw.cfg[1]
           o == updateOutcome(c)
       IN  CASE o = "error" -> /\ cw' = [pc |-> "idle", cfg |-> None]
                               /\ mu' = Free
                               /\ answered("TLS config update failed")
                               /\ UNCHANGED <<tlsConfig, tlsMu, lastRefresh>>
             [] o = "same"  -> /\ cw' = [cw EXCEPT !.pc = "put"]
                               /\ lastRefresh' = Some(c)
                               /\ UNCHANGED <<tlsConfig, tlsMu, mu, admin>>
             [] o = "swap"  -> /\ setRootCAs(c)
                               /\ tlsMu' = CfgW
                               /\ cw' = [cw EXCEPT !.pc = "flag"]
                               /\ UNCHANGED <<mu, lastRefresh, admin>>
    /\ UNCHANGED <<storedConfig, storedRoles, httpClient, tlsConfigUpdateRunning,
                   tlsConfigUpdateCancel, vc, reqCtx, reqCancel, updCancelled,
                   reqCancelled, inits, loops, calls, vsVars>>

pathConfigWrite_Flag ==
    /\ cw.pc = "flag"
    /\ setInsecureSkipVerify(cw.cfg[1])
    /\ cw' = [cw EXCEPT !.pc = "transport"]
    /\ UNCHANGED <<storedConfig, storedRoles, httpClient, tlsConfigUpdateRunning,
                   tlsConfigUpdateCancel, mu, tlsMu, vc, reqCtx, reqCancel, updCancelled,
                   reqCancelled, inits, loops, calls, lastRefresh, vsVars, admin>>

\* transport.TLSClientConfig = b.tlsConfig; tlsMu released; returns nil.
pathConfigWrite_Transport ==
    /\ cw.pc = "transport"
    /\ setTransportTLS
    /\ tlsMu' = Free
    /\ lastRefresh' = Some(cw.cfg[1])
    /\ cw' = [cw EXCEPT !.pc = "put"]
    /\ UNCHANGED <<storedConfig, storedRoles, tlsConfig, tlsConfigUpdateRunning,
                   tlsConfigUpdateCancel, mu, vc, reqCtx, reqCancel, updCancelled,
                   reqCancelled, inits, loops, calls, vsVars, admin>>

\* StorageEntryJSON and req.Storage.Put (which may fail); b.mu released.
pathConfigWrite_Put ==
    /\ cw.pc = "put"
    /\ \E putOK \in BOOLEAN :
         /\ storedConfig' = IF putOK THEN cw.cfg ELSE storedConfig
         /\ answered(IF putOK THEN "ok" ELSE "storage error")
    /\ cw' = [pc |-> "idle", cfg |-> None]
    /\ mu' = Free
    /\ UNCHANGED <<storedRoles, httpClient, tlsConfig, tlsConfigUpdateRunning,
                   tlsConfigUpdateCancel, tlsMu, vc, reqCtx, reqCancel, updCancelled,
                   reqCancelled, inits, loops, calls, lastRefresh, vsVars>>

\* pathConfigRead, the storage answering: a nil response when nothing is
\* stored, else the data of the response.
pathConfigRead ==
    IF config = None THEN None
    ELSE Some([cluster |-> config[1].Cluster, ca_cert |-> config[1].CACert,
               insecure_skip_verify |-> config[1].InsecureSkipVerify,
               namespace |-> config[1].Namespace])

(***************************************************************************)
(* initialize / runTLSConfigUpdater / cleanup                              *)
(***************************************************************************)

alreadyRunning_never == FALSE

\* if b.tlsConfigUpdateRunning { return nil }
alreadyRunning == tlsConfigUpdateRunning

\* initialize call k: context k is created; runTLSConfigUpdater locks tlsMu.
\* Already running: returns nil. Not validated: returns the error and
\* initialize cancels context k. Otherwise the ticker is created, the
\* goroutine is launched and the caller waits (holding tlsMu) on the WaitGroup.
initialize_Start(k) ==
    /\ inits[k].pc = "idle"
    /\ tlsMu = Free
    /\ IF alreadyRunning
       THEN /\ inits' = [inits EXCEPT ![k].pc = "setcancel"]
            /\ answer("runTLSConfigUpdater", "", "", [call |-> k], "ok")
            /\ UNCHANGED <<tlsMu, loops, updCancelled>>
       ELSE IF validateHTTPClient # "ok"
       THEN /\ inits' = [inits EXCEPT ![k] = [pc |-> "done", err |-> TRUE]]
            /\ updCancelled' = updCancelled \cup {k}
            /\ answer("runTLSConfigUpdater", "", "", [call |-> k], validateHTTPClient)
            /\ UNCHANGED <<tlsMu, loops>>
       ELSE /\ inits' = [inits EXCEPT ![k].pc = "wait"]
            /\ loops' = [loops EXCEPT ![k] = [pc |-> "launched", cfg |-> None, ticker |-> "on", logged |-> "none"]]
            /\ tlsMu' = InitTask(k)
            /\ UNCHANGED <<updCancelled, admin>>
    /\ UNCHANGED <<storedConfig, storedRoles, httpClient, tlsConfig, tlsConfigUpdateRunning,
                   tlsConfigUpdateCancel, mu, vc, reqCtx, reqCancel, reqCancelled,
                   cw, calls, lastRefresh, vsVars>>

\* The goroutine: b.tlsConfigUpdateRunning = true; wg.Done().
loop_Running(k) ==
    /\ loops[k].pc = "launched"
    /\ tlsConfigUpdateRunning' = TRUE
    /\ loops' = [loops EXCEPT ![k].pc = "select"]
    /\ UNCHANGED <<storedConfig, storedRoles, httpClient, tlsConfig,
                   tlsConfigUpdateCancel, mu, tlsMu, vc, reqCtx, reqCancel, updCancelled,
                   reqCancelled, inits, cw, calls, lastRefresh, vsVars, admin>>

initialize_Return_held(k) ==
    /\ inits[k].pc = "wait"
    /\ loops[k].pc # "launched"
    /\ inits' = [inits EXCEPT ![k].pc = "setcancel"]
    /\ answer("runTLSConfigUpdater", "", "", [call |-> k], "ok")
    /\ UNCHANGED <<storedConfig, storedRoles, httpClient, tlsConfig, tlsConfigUpdateRunning,
                   tlsConfigUpdateCancel, mu, tlsMu, vc, reqCtx, reqCancel, updCancelled,
                   reqCancelled, loops, cw, calls, lastRefresh, vsVars>>

\* wg.Wait() returns once the goroutine called wg.Done(); tlsMu released.
initialize_Return(k) ==
    /\ inits[k].pc = "wait"
    /\ loops[k].pc # "launched"
    /\ tlsMu' = Free
    /\ inits' = [inits EXCEPT ![k].pc = "setcancel"]
    /\ answer("runTLSConfigUpdater", "", "", [call |-> k], "ok")
    /\ UNCHANGED <<storedConfig, storedRoles, httpClient, tlsConfig, tlsConfigUpdateRunning,
                   tlsConfigUpdateCancel, mu, vc, reqCtx, reqCancel, updCancelled,
                   reqCancelled, loops, cw, calls, lastRefresh, vsVars>>

\* b.tlsConfigUpdateCancel = tlsUpdaterCancel
initialize_SetCancel(k) ==
    /\ inits[k].pc = "setcancel"
    /\ tlsConfigUpdateCancel' = k
    /\ inits' = [inits EXCEPT ![k].pc = "done"]
    /\ UNCHANGED <<storedConfig, storedRoles, httpClient, tlsConfig, tlsConfigUpdateRunning,
                   mu, tlsMu, vc, reqCtx, reqCancel, updCancelled,
                   reqCancelled, loops, cw, calls, lastRefresh, vsVars, admin>>

cancelStored_unchecked == TRUE

\* if b.tlsConfigUpdateCancel != nil
cancelStored == tlsConfigUpdateCancel # 0

\* cleanup: cancel the context of the stored cancel function and clear it.
cleanup ==
    /\ IF cancelStored
       THEN /\ updCancelled' = updCancelled \cup {tlsConfigUpdateCancel}
            /\ tlsConfigUpdateCancel' = 0
       ELSE UNCHANGED <<updCancelled, tlsConfigUpdateCancel>>
    /\ answer("cleanup", "", "", [cancel |-> tlsConfigUpdateCancel], "ok")
    /\ UNCHANGED <<storedConfig, storedRoles, httpClient, tlsConfig, tlsConfigUpdateRunning,
                   mu, tlsMu, vc, reqCtx, reqCancel,
                   reqCancelled, inits, loops, cw, calls, lastRefresh, vsVars>>

ctxDone_never(k) == FALSE

\* <-ctx.Done() is ready: the updater context of initialize call k is cancelled.
ctxDone(k) == k \in updCancelled

\* select: case <-ctx.Done(): return. The deferred function then waits for tlsMu.
loop_Done(k) ==
    /\ loops[k].pc = "select"
    /\ ctxDone(k)
    /\ loops' = [loops EXCEPT ![k].pc = "exiting"]
    /\ UNCHANGED <<storedConfig, storedRoles, httpClient, tlsConfig, tlsConfigUpdateRunning,
                   tlsConfigUpdateCancel, mu, tlsMu, vc, reqCtx, reqCancel, updCancelled,
                   reqCancelled, inits, cw, calls, lastRefresh, vsVars, admin>>

configAbsent_never(c) == FALSE

\* if config == nil { Trace("... TLS config update skipped"); return nil }
configAbsent(c) == c = None

tickErrorNext_return == "exiting"

\* if err = updateTLSConfig(...); err != nil { Warn }: the error is logged
\* and the for loop goes back to the select.
tickErrorNext == "select"

\* select: case <-ticker.C: updateTLSConfig(ctx, b, storage) reads the stored
\* configuration. A storage error is logged, an absent configuration is
\* skipped; otherwise the goroutine goes on to b.updateTLSConfig(config).
loop_Tick(k) ==
    /\ loops[k].pc = "select"
    /\ loops[k].ticker = "on"
    /\ \E readOK \in BOOLEAN :
         IF ~readOK
         THEN loops' = [loops EXCEPT ![k].pc = tickErrorNext, ![k].logged = "update failed"]
         ELSE IF configAbsent(config)
         THEN loops' = [loops EXCEPT ![k].logged = "update skipped"]
         ELSE loops' = [loops EXCEPT ![k].pc = "update", ![k].cfg = config]
    /\ UNCHANGED <<storedConfig, storedRoles, httpClient, tlsConfig, tlsConfigUpdateRunning,
                   tlsConfigUpdateCancel, mu, tlsMu, vc, reqCtx, reqCancel, updCancelled,
                   reqCancelled, inits, cw, calls, lastRefresh, vsVars, admin>>

\* b.updateTLSConfig(config) in the goroutine: an error is logged.
loop_Update(k) ==
    /\ loops[k].pc = "update"
    /\ tlsMu = Free
    /\ LET c == loops[k].cfg[1]
           o == updateOutcome(c)
       IN  CASE o = "error" -> /\ loops' = [loops EXCEPT ![k].pc = tickErrorNext, ![k].cfg = None,
                                                          ![k].logged = "update failed"]
                               /\ UNCHANGED <<tlsConfig, tlsMu, lastRefresh>>
             [] o = "same"  -> /\ loops' = [loops EXCEPT ![k].pc = "select", ![k].cfg = None,
                                                          ![k].logged = "none"]
                               /\ lastRefresh' = Some(c)
                               /\ UNCHANGED <<tlsConfig, tlsMu>>
             [] o = "swap"  -> /\ setRootCAs(c)
                               /\ tlsMu' = LoopTask(k)
                               /\ loops' = [loops EXCEPT ![k].pc = "flag"]
                               /\ UNCHANGED lastRefresh
    /\ UNCHANGED <<storedConfig, storedRoles, httpClient, tlsConfigUpdateRunning,
                   tlsConfigUpdateCancel, mu, vc, reqCtx, reqCancel, updCancelled,
                   reqCancelled, inits, cw, calls, vsVars, admin>>

loop_Flag(k) ==
    /\ loops[k].pc = "flag"
    /\ setInsecureSkipVerify(loops[k].cfg[1])
    /\ loops' = [loops EXCEPT ![k].pc = "transport"]
    /\ UNCHANGED <<storedConfig, storedRoles, httpClient, tlsConfigUpdateRunning,
                   tlsConfigUpdateCancel, mu, tlsMu, vc, reqCtx, reqCancel, updCancelled,
                   reqCancelled, inits, cw, calls, lastRefresh, vsVars, admin>>

loop_Transport(k) ==
    /\ loops[k].pc = "transport"
    /\ setTransportTLS
    /\ tlsMu' = Free
    /\ lastRefresh' = loops[k].cfg
    /\ loops' = [loops EXCEPT ![k].pc = "select", ![k].cfg = None, ![k].logged = "none"]
    /\ UNCHANGED <<storedConfig, storedRoles, tlsConfig, tlsConfigUpdateRunning,
                   tlsConfigUpdateCancel, mu, vc, reqCtx, reqCancel, updCancelled,
                   reqCancelled, inits, cw, calls, vsVars, admin>>

\* The deferred function: lock tlsMu, ticker.Stop(), running = false, unlock.
loop_Exit(k) ==
    /\ loops[k].pc = "exiting"
    /\ tlsMu = Free
    /\ tlsConfigUpdateRunning' = FALSE
    /\ loops' = [loops EXCEPT ![k].pc = "done", ![k].ticker = "stopped"]
    /\ UNCHANGED <<storedConfig, storedRoles, httpClient, tlsConfig,
                   tlsConfigUpdateCancel, mu, tlsMu, vc, reqCtx, reqCancel, updCancelled,
                   reqCancelled, inits, cw, calls, lastRefresh, vsVars, admin>>

(***************************************************************************)
(* Role write and delete                                                   *)
(***************************************************************************)

Operations == {"create", "update"}

\* tokenutil.TokenParams of a role that sets no token field.
zeroTokenParams == [TokenPolicies |-> <<>>, TokenTTL |-> 0, TokenMaxTTL |-> 0,
                    TokenBoundCIDRs |-> <<>>, TokenNumUses |-> 0, TokenPeriod |-> 0,
                    TokenType |-> "default"]

\* &crossVaultAuthRoleEntry{}
newRoleEntry == [TokenParams |-> zeroTokenParams, EntityID |-> "", EntityMeta |-> NilMap,
                 StrictMetaVerify |-> FALSE]

ParseTokenFields_reset(d, t) ==
    [t EXCEPT !.TokenTTL = IF d.token_ttl # None THEN d.token_ttl[1] ELSE 0,
              !.TokenMaxTTL = IF d.token_max_ttl # None THEN d.token_max_ttl[1] ELSE 0]

\* role.ParseTokenFields(req, data) on the TTL fields: the supplied ones
\* replace the role's (durations in seconds); the values of the model are
\* ones it accepts.
ParseTokenFields(d, t) ==
    [t EXCEPT !.TokenTTL = IF d.token_ttl # None THEN d.token_ttl[1] ELSE @,
              !.TokenMaxTTL = IF d.token_max_ttl # None THEN d.token_max_ttl[1] ELSE @]

ttlExceedsMax_never(t) == FALSE

\* if role.TokenMaxTTL > time.Duration(0) && role.TokenTTL > role.TokenMaxTTL
ttlExceedsMax(t) == t.TokenMaxTTL > 0 /\ t.TokenTTL > t.TokenMaxTTL

\* entityID, ok := data.GetOk("entity_id"); req.Operation == CreateOperation && !ok
entityIDMissing(op, d) == op = "create" /\ d.entity_id = None

\* roleEntryUpdate on the fields supplied in d, up to the storage put: the
\* message of the error response and nothing to store, or "ok" and the entry
\* to store.
roleEntryUpdate(op, d, r) ==
    LET t == ParseTokenFields(d, r.TokenParams) IN
    IF ttlExceedsMax(t)
    THEN [out |-> "token_max_ttl must be greater than token_ttl", entry |-> None]
    ELSE IF entityIDMissing(op, d)
    THEN [out |-> "entity_id must be provided", entry |-> None]
    ELSE [out |-> "ok",
          entry |-> Some([TokenParams |-> t,
                          EntityID |-> IF d.entity_id # None THEN d.entity_id[1]
                                       ELSE r.EntityID,
                          EntityMeta |-> IF d.entity_meta # None
                                         THEN MakeMap(d.entity_meta[1])
                                         ELSE r.EntityMeta,
                          StrictMetaVerify |->
                              IF d.strict_meta_verify # None THEN d.strict_meta_verify[1]
                              ELSE IF op = "create" THEN FALSE ELSE r.StrictMetaVerify])]

startsFresh_absent(op, stored) == stored = None

\* case req.Operation == logical.CreateOperation, role == nil
startsFresh(op, stored) == op = "create" \/ stored = None

\* roleWrite under b.mu.Lock(): a create, or a write on an absent role, starts
\* from a fresh entry; an update of a stored role starts from the stored
\* entry. A storage error is returned and nothing is stored.
roleWrite(name, op, d) ==
    /\ name # ""
    /\ mu = Free
    /\ \E storageOK \in BOOLEAN :
         LET stored == role(name)
             base == IF startsFresh(op, stored) THEN newRoleEntry ELSE stored[1]
             res == roleEntryUpdate(op, d, base)
         IN
         /\ IF storageOK /\ res.entry # None
            THEN storedRoles' = [storedRoles EXCEPT ![ToLower(name)] = res.entry]
            ELSE UNCHANGED storedRoles
         /\ answer("roleWrite", op, name, d, IF storageOK THEN res.out ELSE "storage error")
    /\ UNCHANGED <<storedConfig, httpClient, tlsConfig, tlsConfigUpdateRunning,
                   tlsConfigUpdateCancel, mu, tlsMu, vc, reqCtx, reqCancel, updCancelled,
                   reqCancelled, inits, loops, cw, calls, lastRefresh, vsVars>>

Delete_kept(roles, key) == roles

\* req.Storage.Delete(ctx, "role/<key>") returning nil.
Delete(roles, key) == [roles EXCEPT ![key] = None]

\* roleDelete under b.mu.Lock(): Storage.Delete of the lower-cased name.
roleDelete(name) ==
    /\ name # ""
    /\ mu = Free
    /\ \E delOK \in BOOLEAN :
         /\ IF delOK THEN storedRoles' = Delete(storedRoles, ToLower(name))
            ELSE UNCHANGED storedRoles
         /\ answer("roleDelete", "delete", name, [name |-> name],
                   IF delOK THEN "ok" ELSE "storage error")
    /\ UNCHANGED <<storedConfig, httpClient, tlsConfig, tlsConfigUpdateRunning,
                   tlsConfigUpdateCancel, mu, tlsMu, vc, reqCtx, reqCancel, updCancelled,
                   reqCancelled, inits, loops, cw, calls, lastRefresh, vsVars>>

\* role.PopulateTokenData(roleData): the token fields of the role's data.
PopulateTokenData(t) ==
    [token_policies |-> t.TokenPolicies, token_ttl |-> t.TokenTTL,
     token_max_ttl |-> t.TokenMaxTTL, token_bound_cidrs |-> t.TokenBoundCIDRs,
     token_num_uses |-> t.TokenNumUses, token_period |-> t.TokenPeriod,
     token_type |-> t.TokenType]

\* roleRead under b.mu.RLock(), the storage answering: a nil response for an
\* absent role, else the data of the response.
roleRead(name) ==
    IF role(name) = None THEN None
    ELSE LET r == role(name)[1] IN
         Some([entity_id |-> r.EntityID, entity_meta |-> r.EntityMeta,
               strict_meta_verify |-> r.StrictMetaVerify,
               token |-> PopulateTokenData(r.TokenParams)])

\* roleExistenceCheck under b.mu.RLock(): role != nil.
roleExistenceCheck(name) == role(name) # None

(***************************************************************************)
(* login                                                                   *)
(***************************************************************************)

Stages == {"role", "config", "unwrap", "lookup", "match"}

\* The messages of the error responses and the errors a login returns.
roleFieldMandatory == "'role' field is mandatory"

secretFieldMandatory == "'secret' field is mandatory"

roleNotFound == "role with provided name not found"

roleValidationFailed == "role validation failed"

tokenNotFoundInWrappedData == "token not found in wrapped data, expect data stored in key 'secret'"

accessorNotFoundInWrappedData == "accessor not found in wrapped data, expect data stored in key 'secret'"

unknownLoginMethod == "unknown login method"

\* An error of the storage, of a remote call, or of decoding its reply.
storageError == "storage error"

remoteError == "remote call error"

nilDereference == "nil pointer dereference"

\* A login call: its position, its locals, its response (resp, err), the
\* stages it passed and the remote calls it issued.
idleCall == [pc |-> "idle", method |-> WrappedTokenFull, role |-> None, deferred |-> 0,
             reply |-> "none", resp |-> "none", err |-> "", passed |-> {},
             unwraps |-> 0, lookups |-> 0]

\* A call that ended: its response, and its deferred cancel (if registered)
\* run. u and l count the unwrap and lookup calls issued in the ending step.
finish(i, resp, err, stages, u, l) ==
    /\ calls' = [calls EXCEPT ![i] = [idleCall EXCEPT !.pc = "done", !.resp = resp,
                                       !.err = err,
                                       !.passed = calls[i].passed \cup stages,
                                       !.unwraps = calls[i].unwraps + u,
                                       !.lookups = calls[i].lookups + l]]
    /\ reqCancelled' = IF calls[i].deferred # 0
                       THEN reqCancelled \cup {calls[i].deferred}
                       ELSE reqCancelled

roleAbsent_never(r) == FALSE

\* if role == nil
roleAbsent(r) == r = None

\* Field checks and b.role: a missing field or an absent role is answered
\* with an error response, a storage error with an error.
login_Role(i, roleName, secretGiven, method) ==
    /\ calls[i].pc = "idle"
    /\ \E getOK \in BOOLEAN :
         IF roleName = "" THEN finish(i, "rejected", roleFieldMandatory, {}, 0, 0)
         ELSE IF ~secretGiven THEN finish(i, "rejected", secretFieldMandatory, {}, 0, 0)
         ELSE IF ~getOK THEN finish(i, "failed", storageError, {}, 0, 0)
         ELSE IF roleAbsent(role(roleName)) THEN finish(i, "rejected", roleNotFound, {}, 0, 0)
         ELSE /\ calls' = [calls EXCEPT ![i].pc = "config", ![i].method = method,
                                        ![i].role = role(roleName),
                                        ![i].passed = {"role"}]
              /\ UNCHANGED reqCancelled
    /\ UNCHANGED <<storedConfig, storedRoles, httpClient, tlsConfig, tlsConfigUpdateRunning,
                   tlsConfigUpdateCancel, mu, tlsMu, vc, reqCtx, reqCancel, updCancelled,
                   inits, loops, cw, lastRefresh, vsVars, admin>>

\* newConfig: the client configuration uses b.httpClient and config.Cluster.
newConfig(i, c) == [owner |-> i, Address |-> c.Cluster]

\* b.config, then b.vc = api.NewClient(b.newConfig(config)). A storage error
\* is returned; with no stored configuration newConfig dereferences nil.
login_Config(i) ==
    /\ calls[i].pc = "config"
    /\ \E getOK \in BOOLEAN :
         IF ~getOK THEN finish(i, "failed", storageError, {}, 0, 0) /\ UNCHANGED vc
         ELSE IF config = None
         THEN finish(i, "panic", nilDereference, {}, 0, 0) /\ UNCHANGED vc
         ELSE /\ vc' = Some(newConfig(i, config[1]))
              /\ calls' = [calls EXCEPT ![i].pc = "ctx",
                                        ![i].passed = calls[i].passed \cup {"config"}]
              /\ UNCHANGED reqCancelled
    /\ UNCHANGED <<storedConfig, storedRoles, httpClient, tlsConfig, tlsConfigUpdateRunning,
                   tlsConfigUpdateCancel, mu, tlsMu, reqCtx, reqCancel, updCancelled,
                   inits, loops, cw, lastRefresh, vsVars, admin>>

\* b.ctx, b.cancel = context.WithTimeout(ctx, requestTimeout)
login_Ctx(i) ==
    /\ calls[i].pc = "ctx"
    /\ reqCtx' = i
    /\ reqCancel' = i
    /\ calls' = [calls EXCEPT ![i].pc = "defer"]
    /\ UNCHANGED <<storedConfig, storedRoles, httpClient, tlsConfig, tlsConfigUpdateRunning,
                   tlsConfigUpdateCancel, mu, tlsMu, vc, updCancelled, reqCancelled,
                   inits, loops, cw, lastRefresh, vsVars, admin>>

\* defer b.cancel(): the function value read from b.cancel now.
login_Defer(i) ==
    /\ calls[i].pc = "defer"
    /\ calls' = [calls EXCEPT ![i].pc = "unwrap", ![i].deferred = reqCancel]
    /\ UNCHANGED <<storedConfig, storedRoles, httpClient, tlsConfig, tlsConfigUpdateRunning,
                   tlsConfigUpdateCancel, mu, tlsMu, vc, reqCtx, reqCancel, updCancelled,
                   reqCancelled, inits, loops, cw, lastRefresh, vsVars, admin>>

unwrapFailed_retry(i) ==
    /\ calls' = [calls EXCEPT ![i].unwraps = calls[i].unwraps + 1]
    /\ UNCHANGED reqCancelled

\* resp, err := UnwrapWithContext(...); if err != nil { return "", err }, and
\* login returns the error.
unwrapFailed(i) == finish(i, "failed", remoteError, {}, 1, 0)

\* unwrapSecret, first half: one unwrap call through b.vc under b.ctx. Under
\* a cancelled context the call fails.
login_Unwrap(i) ==
    /\ calls[i].pc = "unwrap"
    /\ \E reply \in UnwrapReplies :
         IF reply = "error" \/ reqCtx \in reqCancelled
         THEN unwrapFailed(i)
         ELSE /\ calls' = [calls EXCEPT ![i].pc = "resolve", ![i].reply = reply,
                                        ![i].unwraps = calls[i].unwraps + 1]
              /\ UNCHANGED reqCancelled
    /\ UNCHANGED <<storedConfig, storedRoles, httpClient, tlsConfig, tlsConfigUpdateRunning,
                   tlsConfigUpdateCancel, mu, tlsMu, vc, reqCtx, reqCancel, updCancelled,
                   inits, loops, cw, lastRefresh, vsVars, admin>>

unwrapSecret_unchecked(method, reply) == "ok"

\* unwrapSecret, the switch on method over the unwrapped reply: "ok", an
\* error, or nilDereference (token-full reads resp.Auth.ClientToken, and
\* resp.Auth is nil for wrapped data).
unwrapSecret(method, reply) ==
    CASE method = WrappedTokenFull -> IF reply = "auth" THEN "ok" ELSE nilDereference
      [] method = WrappedTokenOnly ->
             IF reply = "data-secret" THEN "ok" ELSE tokenNotFoundInWrappedData
      [] method = WrappedAccessorOnly ->
             IF reply = "data-secret" THEN "ok" ELSE accessorNotFoundInWrappedData
      [] OTHER -> unknownLoginMethod

\* unwrapSecret, second half, and the error check in login.
login_Resolve(i) ==
    /\ calls[i].pc = "resolve"
    /\ LET r == unwrapSecret(calls[i].method, calls[i].reply)
       IN  CASE r = "ok" -> /\ calls' = [calls EXCEPT ![i].pc = "validate", ![i].reply = "none",
                                         ![i].passed = calls[i].passed \cup {"unwrap"}]
                            /\ UNCHANGED reqCancelled
             [] r = nilDereference -> finish(i, "panic", r, {}, 0, 0)
             [] OTHER -> finish(i, "failed", r, {}, 0, 0)
    /\ UNCHANGED <<storedConfig, storedRoles, httpClient, tlsConfig, tlsConfigUpdateRunning,
                   tlsConfigUpdateCancel, mu, tlsMu, vc, reqCtx, reqCancel, updCancelled,
                   inits, loops, cw, lastRefresh, vsVars, admin>>

loginOutcome_unchecked(v) == IF v.err THEN "failed" ELSE "auth"

\* if err != nil { return nil, err }; if !validated { return ErrorResponse };
\* otherwise the response carries the minted Auth.
loginOutcome(v) == IF v.err THEN "failed" ELSE IF ~v.validated THEN "rejected" ELSE "auth"

\* The error or the message that goes with the outcome of validateSecret.
loginError(v) == IF v.err THEN remoteError ELSE IF ~v.validated THEN roleValidationFailed ELSE ""

\* b.validateSecret: one lookup call through b.vc under b.ctx, then the
\* matching policy on the reply; then the response.
login_Validate(i) ==
    /\ calls[i].pc = "validate"
    /\ \/ finish(i, "failed", remoteError, {}, 0, 1)
       \/ /\ reqCtx \notin reqCancelled
          /\ \E data \in LookupReplies :
               LET v == validateResponse(calls[i].role[1], data) IN
               finish(i, loginOutcome(v), loginError(v),
                      {"lookup"} \cup (IF v.validated THEN {"match"} ELSE {}), 0, 1)
    /\ UNCHANGED <<storedConfig, storedRoles, httpClient, tlsConfig, tlsConfigUpdateRunning,
                   tlsConfigUpdateCancel, mu, tlsMu, vc, reqCtx, reqCancel, updCancelled,
                   inits, loops, cw, lastRefresh, vsVars, admin>>

\* role.PopulateTokenAuth(auth): the token fields of the role, and Renewable.
PopulateTokenAuth(auth, t) ==
    [auth EXCEPT !.Policies = t.TokenPolicies, !.TTL = t.TokenTTL, !.MaxTTL = t.TokenMaxTTL,
                 !.BoundCIDRs = t.TokenBoundCIDRs, !.NumUses = t.TokenNumUses,
                 !.Period = t.TokenPeriod, !.TokenType = t.TokenType, !.Renewable = TRUE]

\* &logical.Auth{...}: the fields login sets, the others zero. DisplayName is
\* fmt.Sprintf("%s-%s", roleName, role.EntityID), kept as its three parts.
newAuth(roleName, r) ==
    LET metadata == {<<"role", roleName>>, <<"mapped_entity_id", r.EntityID>>} IN
    [InternalData |-> {<<"role", roleName>>},
     DisplayName |-> <<roleName, "-", r.EntityID>>,
     Metadata |-> metadata,
     Alias |-> [Name |-> r.RoleID, Metadata |-> metadata],
     Orphan |-> TRUE, Renewable |-> FALSE,
     Policies |-> <<>>, TTL |-> 0, MaxTTL |-> 0, BoundCIDRs |-> <<>>, NumUses |-> 0,
     Period |-> 0, TokenType |-> "default"]

loginAuth_populated(roleName, r) == PopulateTokenAuth(newAuth(roleName, r), r.TokenParams)

\* The Auth of a login that validated: role.PopulateTokenAuth(auth), then
\* auth.Renewable = false.
loginAuth(roleName, r) ==
    [PopulateTokenAuth(newAuth(roleName, r), r.TokenParams) EXCEPT !.Renewable = FALSE]

\* loginAliasLookahead for a role name, given whether the storage read
\* succeeds and what b.role finds: the alias name of the response, or the
\* error. b.role returns (nil, nil) for an absent role and role.RoleID is
\* read without a nil check.
loginAliasLookahead(roleName, getOK, r) ==
    IF roleName = "" THEN [alias |-> None, err |-> roleFieldMandatory]
    ELSE IF ~getOK THEN [alias |-> None, err |-> storageError]
    ELSE IF r = None THEN [alias |-> None, err |-> nilDereference]
    ELSE [alias |-> Some(r[1].RoleID), err |-> ""]

(***************************************************************************)
(* Specifications                                                          *)
(***************************************************************************)

\* The backend after backend() and Setup: nothing stored, nothing started.
InitBackend ==
    /\ storedConfig = None
    /\ storedRoles = [n \in RoleKeys |-> None]
    /\ httpClient = defaultHTTPClient
    /\ tlsConfig = defaultTLSConfig
    /\ tlsConfigUpdateRunning = FALSE
    /\ tlsConfigUpdateCancel = 0
    /\ mu = Free
    /\ tlsMu = Free
    /\ vc = None
    /\ reqCtx = 0
    /\ reqCancel = 0
    /\ updCancelled = {}
    /\ reqCancelled = {}
    /\ inits = [k \in InitIds |-> [pc |-> "idle", err |-> FALSE]]
    /\ loops = [k \in InitIds |-> [pc |-> "none", cfg |-> None, ticker |-> "none", logged |-> "none"]]
    /\ cw = [pc |-> "idle", cfg |-> None]
    /\ calls = [i \in CallIds |-> idleCall]
    /\ lastRefresh = None

Init ==
    /\ InitBackend
    /\ vsRole = newRoleEntry
    /\ vsData = [entity_id |-> None, meta |-> MetaNull]
    /\ vsOut = None
    /\ admin = Unkept

\* Start, stop and the updater goroutines, with configuration writes that
\* change the certificates.
UpdaterConfigs == {c \in ConfigInputs : c.CACert # "garbage" /\ ~c.InsecureSkipVerify /\
                                        c.Namespace = None}

NextUpdater ==
    \/ \E c \in UpdaterConfigs : pathConfigWrite_Begin(c)
    \/ pathConfigWrite_Update
    \/ pathConfigWrite_Flag
    \/ pathConfigWrite_Transport
    \/ pathConfigWrite_Put
    \/ \E k \in InitIds : initialize_Start(k)
    \/ \E k \in InitIds : initialize_Return(k)
    \/ \E k \in InitIds : initialize_SetCancel(k)
    \/ cleanup
    \/ \E k \in InitIds : loop_Running(k)
    \/ \E k \in InitIds : loop_Done(k)
    \/ \E k \in InitIds : loop_Tick(k)
    \/ \E k \in InitIds : loop_Update(k)
    \/ \E k \in InitIds : loop_Flag(k)
    \/ \E k \in InitIds : loop_Transport(k)
    \/ \E k \in InitIds : loop_Exit(k)

SpecUpdater == Init /\ [][NextUpdater]_vars

\* Scheduling of the updater: a started goroutine runs, a held tlsMu is
\* released, a goroutine waiting for tlsMu gets it at some point (sync.Mutex
\* hands the lock to a starving waiter), and a select with a ready
\* <-ctx.Done() case chooses it at some point (the choice among ready cases
\* is uniformly random). Each condition is stated for the goroutines
\* together, which asks less than stating it for each one.
FairUpdater ==
    /\ WF_vars(pathConfigWrite_Flag)
    /\ WF_vars(pathConfigWrite_Transport)
    /\ WF_vars(\E k \in InitIds : loop_Running(k))
    /\ WF_vars(\E k \in InitIds : initialize_Return(k))
    /\ SF_vars(\E k \in InitIds : loop_Done(k))
    /\ SF_vars(\E k \in InitIds : loop_Update(k))
    /\ WF_vars(\E k \in InitIds : loop_Flag(k))
    /\ WF_vars(\E k \in InitIds : loop_Transport(k))
    /\ SF_vars(\E k \in InitIds : loop_Exit(k))

\* Start, stop and the updater goroutines beside writes of one configuration.
StopConfigs == {c \in UpdaterConfigs : c.Cluster # "" /\ c.CACert = "pemA"}

\* The backend after backend() and Setup, with nothing stored or with the
\* configuration a previous run of the plugin stored (nothing installed yet).
InitStop ==
    /\ storedConfig \in {None} \cup {Some(newBackendConfig(c)) : c \in StopConfigs}
    /\ storedRoles = [n \in RoleKeys |-> None]
    /\ httpClient = defaultHTTPClient
    /\ tlsConfig = defaultTLSConfig
    /\ tlsConfigUpdateRunning = FALSE
    /\ tlsConfigUpdateCancel = 0
    /\ mu = Free
    /\ tlsMu = Free
    /\ vc = None
    /\ reqCtx = 0
    /\ reqCancel = 0
    /\ updCancelled = {}
    /\ reqCancelled = {}
    /\ inits = [k \in InitIds |-> [pc |-> "idle", err |-> FALSE]]
    /\ loops = [k \in InitIds |-> [pc |-> "none", cfg |-> None, ticker |-> "none", logged |-> "none"]]
    /\ cw = [pc |-> "idle", cfg |-> None]
    /\ calls = [i \in CallIds |-> idleCall]
    /\ lastRefresh = None
    /\ vsRole = newRoleEntry
    /\ vsData = [entity_id |-> None, meta |-> MetaNull]
    /\ vsOut = None
    /\ admin = Unkept

NextStop ==
    \/ \E c \in StopConfigs : pathConfigWrite_Begin(c)
    \/ pathConfigWrite_Update
    \/ pathConfigWrite_Flag
    \/ pathConfigWrite_Transport
    \/ pathConfigWrite_Put
    \/ \E k \in InitIds : initialize_Start(k)
    \/ \E k \in InitIds : initialize_Return(k)
    \/ \E k \in InitIds : initialize_SetCancel(k)
    \/ cleanup
    \/ \E k \in InitIds : loop_Running(k)
    \/ \E k \in InitIds : loop_Done(k)
    \/ \E k \in InitIds : loop_Tick(k)
    \/ \E k \in InitIds : loop_Update(k)
    \/ \E k \in InitIds : loop_Flag(k)
    \/ \E k \in InitIds : loop_Transport(k)
    \/ \E k \in InitIds : loop_Exit(k)

SpecStop == InitStop /\ [][NextStop]_vars /\ FairUpdater

\* Refreshes: every configuration write, and the ticks of the updater
\* goroutine of one initialize call.
RefreshInits == {k \in InitIds : \A j \in InitIds : k <= j}

RefreshConfigs == {c \in ConfigInputs : c.Namespace = None}

NextRefresh ==
    \/ \E c \in RefreshConfigs : pathConfigWrite_Begin(c)
    \/ pathConfigWrite_Update
    \/ pathConfigWrite_Flag
    \/ pathConfigWrite_Transport
    \/ pathConfigWrite_Put
    \/ \E k \in RefreshInits : initialize_Start(k)
    \/ \E k \in RefreshInits : initialize_Return(k)
    \/ \E k \in RefreshInits : initialize_SetCancel(k)
    \/ cleanup
    \/ \E k \in RefreshInits : loop_Running(k)
    \/ \E k \in RefreshInits : loop_Done(k)
    \/ \E k \in RefreshInits : loop_Tick(k)
    \/ \E k \in RefreshInits : loop_Update(k)
    \/ \E k \in RefreshInits : loop_Flag(k)
    \/ \E k \in RefreshInits : loop_Transport(k)
    \/ \E k \in RefreshInits : loop_Exit(k)

SpecRefresh == Init /\ [][NextRefresh]_vars

\* Writes of configurations that differ in their certificates, beside the
\* goroutine of one initialize call.
ConvergeConfigs == {c \in UpdaterConfigs : c.Cluster # ""}

\* The tick of goroutine k reads a stored configuration.
loop_TickRead(k) == loop_Tick(k) /\ loops'[k].pc = "update"

NextConverge ==
    \/ \E c \in ConvergeConfigs : pathConfigWrite_Begin(c)
    \/ pathConfigWrite_Update
    \/ pathConfigWrite_Flag
    \/ pathConfigWrite_Transport
    \/ pathConfigWrite_Put
    \/ \E k \in RefreshInits : initialize_Start(k)
    \/ \E k \in RefreshInits : initialize_Return(k)
    \/ \E k \in RefreshInits : initialize_SetCancel(k)
    \/ cleanup
    \/ \E k \in RefreshInits : loop_Running(k)
    \/ \E k \in RefreshInits : loop_Done(k)
    \/ \E k \in RefreshInits : loop_Tick(k)
    \/ \E k \in RefreshInits : loop_Update(k)
    \/ \E k \in RefreshInits : loop_Flag(k)
    \/ \E k \in RefreshInits : loop_Transport(k)
    \/ \E k \in RefreshInits : loop_Exit(k)

\* The ticker fires every period: while a configuration is stored and the
\* storage answers again and again, a goroutine at its select reads the
\* configuration again and again.
FairTicks == SF_vars(\E k \in InitIds : loop_TickRead(k))

SpecConverge == Init /\ [][NextConverge]_vars /\ FairUpdater /\ FairTicks

\* Inputs of the operations that run beside the logins.
LoginRoleInputs == {d \in RoleInputs :
                       /\ d.entity_id = Some("E1")
                       /\ d.entity_meta = None <=> d.strict_meta_verify = None
                       /\ d.token_ttl = None /\ d.token_max_ttl = None}

LoginRoleNames == {"", "sample", "ghost"}

LoginMethods == {WrappedTokenFull, WrappedTokenOnly}

\* The configuration of a configured backend.
LoginConfig == [Cluster |-> "https://leader", CACert |-> "pemA", InsecureSkipVerify |-> FALSE,
                Namespace |-> "root"]

\* The backend with nothing stored, or after one write of LoginConfig; a is
\* admin, requests kept or not.
InitLoginWith(a) ==
    \/ /\ InitBackend
       /\ vsRole = newRoleEntry
       /\ vsData = [entity_id |-> None, meta |-> MetaNull]
       /\ vsOut = None
       /\ admin = a
    \/ /\ storedConfig = Some(LoginConfig)
       /\ storedRoles = [n \in RoleKeys |-> None]
       /\ httpClient = [defaultHTTPClient EXCEPT !.TLSClientConfig = TRUE]
       /\ tlsConfig = [defaultTLSConfig EXCEPT
              !.RootCAs = Some(NewCertPool(None, AppendCertsFromPEM(LoginConfig.CACert))),
              !.InsecureSkipVerify = LoginConfig.InsecureSkipVerify]
       /\ tlsConfigUpdateRunning = FALSE
       /\ tlsConfigUpdateCancel = 0
       /\ mu = Free
       /\ tlsMu = Free
       /\ vc = None
       /\ reqCtx = 0
       /\ reqCancel = 0
       /\ updCancelled = {}
       /\ reqCancelled = {}
       /\ inits = [k \in InitIds |-> [pc |-> "idle", err |-> FALSE]]
       /\ loops = [k \in InitIds |-> [pc |-> "none", cfg |-> None, ticker |-> "none", logged |-> "none"]]
       /\ cw = [pc |-> "idle", cfg |-> None]
       /\ calls = [i \in CallIds |-> idleCall]
       /\ lastRefresh = Some(LoginConfig)
       /\ vsRole = newRoleEntry
       /\ vsData = [entity_id |-> None, meta |-> MetaNull]
       /\ vsOut = None
       /\ admin = a

InitLogin == InitLoginWith(Unkept)

\* The role written beside concurrent logins: strict, with metadata.
SharedRoleInputs == {d \in LoginRoleInputs : d.entity_meta # None}

\* Concurrent logins with role writes and deletes.
NextLogin ==
    \/ \E n \in RoleKeys, op \in Operations, d \in SharedRoleInputs : roleWrite(n, op, d)
    \/ \E n \in RoleKeys : roleDelete(n)
    \/ \E i \in CallIds, n \in LoginRoleNames, secretGiven \in BOOLEAN, m \in LoginMethods :
         login_Role(i, n, secretGiven, m)
    \/ \E i \in CallIds : login_Config(i)
    \/ \E i \in CallIds : login_Ctx(i)
    \/ \E i \in CallIds : login_Defer(i)
    \/ \E i \in CallIds : login_Unwrap(i)
    \/ \E i \in CallIds : login_Resolve(i)
    \/ \E i \in CallIds : login_Validate(i)

SpecLogin == InitLogin /\ [][NextLogin]_vars

\* One login at a time with every method and role name, beside role writes
\* and deletes under either spelling of the name, their requests and
\* responses kept.
ResolveCalls == {i \in CallIds : \A j \in CallIds : i <= j}

InitResolve == InitLoginWith(Kept)

NextResolve ==
    \/ \E n \in WriteNames, op \in Operations, d \in LoginRoleInputs : roleWrite(n, op, d)
    \/ \E n \in WriteNames : roleDelete(n)
    \/ \E i \in ResolveCalls, n \in RoleNames, secretGiven \in BOOLEAN, m \in Methods :
         login_Role(i, n, secretGiven, m)
    \/ \E i \in ResolveCalls : login_Config(i)
    \/ \E i \in ResolveCalls : login_Ctx(i)
    \/ \E i \in ResolveCalls : login_Defer(i)
    \/ \E i \in ResolveCalls : login_Unwrap(i)
    \/ \E i \in ResolveCalls : login_Resolve(i)
    \/ \E i \in ResolveCalls : login_Validate(i)

SpecResolve == InitResolve /\ [][NextResolve]_vars

\* validateSecret alone: every role, every method and every lookup response
\* data.
InitMatch ==
    /\ InitBackend
    /\ vsRole \in RoleEntries
    /\ vsData \in LookupData
    /\ vsOut = None
    /\ admin = Unkept

\* One call of validateSecret: the lookup request it sends for the method,
\* and its result on the response data.
validateSecret_Apply ==
    /\ vsOut = None
    /\ \E method \in Methods :
         LET v == validateResponse(vsRole, vsData) IN
         vsOut' = Some([validated |-> v.validated, err |-> v.err, method |-> method,
                        path |-> lookupPath(method), key |-> lookupPayloadKey(method)])
    /\ UNCHANGED <<vsRole, vsData, backendVars, admin>>

NextMatch == validateSecret_Apply

SpecMatch == InitMatch /\ [][NextMatch]_vars

\* The credential of a validated login alone: every role and role name.
MintTokenParams == [TokenPolicies : {<<>>, <<"sample-policy">>}, TokenTTL : {0, 1},
                    TokenMaxTTL : {0, 1}, TokenBoundCIDRs : {<<>>, <<"10.0.0.0/8">>},
                    TokenNumUses : {0, 1}, TokenPeriod : {0, 1},
                    TokenType : {"default", "service"}]

MintRoles == [TokenParams : MintTokenParams, EntityID : {"E1", "E2"}, RoleID : {"role-id-1"}]

InitMint ==
    /\ InitBackend
    /\ vsRole \in MintRoles
    /\ vsData \in [role : {"sample", "SAMPLE"}]
    /\ vsOut = None
    /\ admin = Unkept

login_Auth ==
    /\ vsOut = None
    /\ vsOut' = Some(loginAuth(vsData.role, vsRole))
    /\ UNCHANGED <<vsRole, vsData, backendVars, admin>>

NextMint == login_Auth

SpecMint == InitMint /\ [][NextMint]_vars

\* The identity pre-lookup alone: every role name, and what b.role finds.
InitLookahead ==
    /\ InitBackend
    /\ vsRole \in {None} \cup {Some(r) : r \in MintRoles}
    /\ vsData \in [role : {"", "sample", "SAMPLE"}]
    /\ vsOut = None
    /\ admin = Unkept

loginAliasLookahead_Apply ==
    /\ vsOut = None
    /\ \E getOK \in BOOLEAN : vsOut' = Some(loginAliasLookahead(vsData.role, getOK, vsRole))
    /\ UNCHANGED <<vsRole, vsData, backendVars, admin>>

NextLookahead == loginAliasLookahead_Apply

SpecLookahead == InitLookahead /\ [][NextLookahead]_vars

\* The backend after backend() and Setup, requests and responses kept.
InitKept ==
    /\ InitBackend
    /\ vsRole = newRoleEntry
    /\ vsData = [entity_id |-> None, meta |-> MetaNull]
    /\ vsOut = None
    /\ admin = Kept

\* Role writes and deletes one after the other.
NextRoles ==
    \/ \E n \in WriteNames, op \in Operations, d \in RoleInputs : roleWrite(n, op, d)
    \/ \E n \in WriteNames : roleDelete(n)

SpecRoles == InitKept /\ [][NextRoles]_vars

\* The receiver of runTLSConfigUpdater and b.updateTLSConfig: the backend of
\* backend(), or a backend value whose HTTP client or TLS configuration is
\* nil, the case validateHTTPClient is there for.
Materials == [client : BOOLEAN, tls : BOOLEAN]

InitMaterial(a) ==
    /\ storedConfig = None
    /\ storedRoles = [n \in RoleKeys |-> None]
    /\ \E m \in Materials :
         /\ httpClient = [defaultHTTPClient EXCEPT !.set = m.client]
         /\ tlsConfig = [defaultTLSConfig EXCEPT !.set = m.tls]
    /\ tlsConfigUpdateRunning = FALSE
    /\ tlsConfigUpdateCancel = 0
    /\ mu = Free
    /\ tlsMu = Free
    /\ vc = None
    /\ reqCtx = 0
    /\ reqCancel = 0
    /\ updCancelled = {}
    /\ reqCancelled = {}
    /\ inits = [k \in InitIds |-> [pc |-> "idle", err |-> FALSE]]
    /\ loops = [k \in InitIds |-> [pc |-> "none", cfg |-> None, ticker |-> "none", logged |-> "none"]]
    /\ cw = [pc |-> "idle", cfg |-> None]
    /\ calls = [i \in CallIds |-> idleCall]
    /\ lastRefresh = None
    /\ vsRole = newRoleEntry
    /\ vsData = [entity_id |-> None, meta |-> MetaNull]
    /\ vsOut = None
    /\ admin = a

\* Start, stop, the goroutines and configuration writes on such a backend.
InitStart == InitMaterial(Unkept)

SpecStart == InitStart /\ [][NextUpdater]_vars

\* Start, stop and the goroutines with nothing stored, the stops kept.
NextLifecycle ==
    \/ \E k \in InitIds : initialize_Start(k)
    \/ \E k \in InitIds : initialize_Return(k)
    \/ \E k \in InitIds : initialize_SetCancel(k)
    \/ cleanup
    \/ \E k \in InitIds : loop_Running(k)
    \/ \E k \in InitIds : loop_Done(k)
    \/ \E k \in InitIds : loop_Tick(k)
    \/ \E k \in InitIds : loop_Exit(k)

SpecLifecycle == InitMaterial(Kept) /\ [][NextLifecycle]_vars

\* Every operation beside the others: configuration writes, role writes and
\* deletes, one login, start, stop and the updater goroutine.
NextLocks ==
    \/ \E c \in ConvergeConfigs : pathConfigWrite_Begin(c)
    \/ pathConfigWrite_Update
    \/ pathConfigWrite_Flag
    \/ pathConfigWrite_Transport
    \/ pathConfigWrite_Put
    \/ \E k \in RefreshInits : initialize_Start(k)
    \/ \E k \in RefreshInits : initialize_Return(k)
    \/ \E k \in RefreshInits : initialize_SetCancel(k)
    \/ cleanup
    \/ \E k \in RefreshInits : loop_Running(k)
    \/ \E k \in RefreshInits : loop_Done(k)
    \/ \E k \in RefreshInits : loop_Tick(k)
    \/ \E k \in RefreshInits : loop_Update(k)
    \/ \E k \in RefreshInits : loop_Flag(k)
    \/ \E k \in RefreshInits : loop_Transport(k)
    \/ \E k \in RefreshInits : loop_Exit(k)
    \/ \E n \in RoleKeys, d \in SharedRoleInputs : roleWrite(n, "create", d)
    \/ \E n \in RoleKeys : roleDelete(n)
    \/ \E i \in ResolveCalls : login_Role(i, "sample", TRUE, WrappedTokenFull)
    \/ \E i \in ResolveCalls : login_Config(i)
    \/ \E i \in ResolveCalls : login_Ctx(i)
    \/ \E i \in ResolveCalls : login_Defer(i)
    \/ \E i \in ResolveCalls : login_Unwrap(i)
    \/ \E i \in ResolveCalls : login_Resolve(i)
    \/ \E i \in ResolveCalls : login_Validate(i)

SpecLocks == InitLogin /\ [][NextLocks]_vars

\* Configuration writes one after the other.
NextConfig ==
    \/ \E c \in ConfigInputs : pathConfigWrite_Begin(c)
    \/ pathConfigWrite_Update
    \/ pathConfigWrite_Flag
    \/ pathConfigWrite_Transport
    \/ pathConfigWrite_Put

SpecConfig == InitKept /\ [][NextConfig]_vars

(***************************************************************************)
(* Claims                                                                  *)
(***************************************************************************)

\* C1: a login response carries a minted credential only if, within that
\* call, the role was found, the configuration was read, the unwrap and the
\* lookup succeeded and the matching policy returned true; every call that
\* ended otherwise carries none.
C1_AuthOnlyAfterEveryStage ==
    \A i \in CallIds :
        /\ calls[i].resp = "auth" => calls[i].passed = Stages
        /\ calls[i].pc = "done" /\ calls[i].passed # Stages => calls[i].resp # "auth"

\* One call minted a credential while another was rejected by the policy.
C1_Witness ==
    \E i \in CallIds, j \in CallIds :
        /\ calls[i].resp = "auth"
        /\ calls[j].resp = "rejected" /\ "lookup" \in calls[j].passed

\* The matching policy was applied and its result is v.
Validated == vsOut # None /\ vsOut[1].validated

EntityMatches == vsData.entity_id = Some(vsRole.EntityID)

\* The lookup reported a string-to-string mapping (or none at all).
MetaIsMapping == vsData.meta.kind \in {"null", "object"}

\* C2: no match whenever the looked-up entityID differs from role.entityID,
\* whatever the metadata and strictMetadataVerify.
C2_EntityMismatchNeverMatches ==
    vsOut # None /\ ~EntityMatches => ~vsOut[1].validated

\* An entity mismatch on a response whose metadata alone would match.
C2_Witness ==
    /\ vsOut # None
    /\ vsRole.EntityID = "E1" /\ vsData.entity_id = Some("E2")
    /\ MetaIsMapping /\ vsData.meta.kv = vsRole.EntityMeta.kv /\ vsRole.EntityMeta.kv # {}

\* C3: with strictMetadataVerify, a match implies that the looked-up metadata
\* has exactly the keys and values of role.entityMetadata; a mapping with all
\* role pairs and an extra key does not match.
C3_StrictMatchIsExact ==
    vsOut # None /\ vsRole.StrictMetaVerify /\ vsOut[1].validated
        => MetaIsMapping /\ vsData.meta.kv = vsRole.EntityMeta.kv

\* Strict role, same entity, all role pairs plus an extra key: rejected.
C3_Witness ==
    /\ vsOut # None /\ vsRole.StrictMetaVerify /\ EntityMatches
    /\ vsData.meta.kind = "object"
    /\ vsRole.EntityMeta.kv # {}
    /\ vsRole.EntityMeta.kv \subseteq vsData.meta.kv
    /\ vsRole.EntityMeta.kv # vsData.meta.kv
    /\ ~vsOut[1].validated

\* C4: without strictMetadataVerify and with equal entityID, a looked-up
\* mapping holding every role pair matches, whatever else it holds; an empty
\* role.entityMetadata matches every mapping.
C4_SubsetMatches ==
    vsOut # None /\ ~vsRole.StrictMetaVerify /\ EntityMatches /\ MetaIsMapping
        /\ vsRole.EntityMeta.kv \subseteq vsData.meta.kv
        => vsOut[1].validated

\* Non-strict role, all role pairs plus an extra key: matched.
C4_Witness ==
    /\ Validated /\ ~vsRole.StrictMetaVerify
    /\ vsRole.EntityMeta.kv # {}
    /\ vsRole.EntityMeta.kv \subseteq vsData.meta.kv
    /\ vsRole.EntityMeta.kv # vsData.meta.kv

\* C5: without strictMetadataVerify, a key of role.entityMetadata that the
\* looked-up metadata does not contain means no match, whatever value the
\* role configures for it.
C5_MissingKeyNeverMatches ==
    vsOut # None /\ ~vsRole.StrictMetaVerify
        /\ (\E key \in MapKeys(vsRole.EntityMeta) : key \notin {p[1] : p \in vsData.meta.kv})
        => ~vsOut[1].validated

\* C6: with equal entityID, empty looked-up metadata (none, or an empty
\* mapping) matches empty role.entityMetadata (never set, or an empty
\* mapping), for both values of strictMetadataVerify.
C6_EmptyMatchesEmpty ==
    vsOut # None /\ EntityMatches /\ MetaIsMapping
        /\ vsData.meta.kv = {} /\ vsRole.EntityMeta.kv = {}
        => vsOut[1].validated

\* The updater goroutines that exist: launched and not yet ended.
LiveLoops == {k \in InitIds : loops[k].pc \notin {"none", "done"}}

\* initialize call k takes its runTLSConfigUpdater step in this transition.
Starts(k) == inits[k].pc = "idle" /\ inits'[k].pc # "idle"

\* C7: at most one updater goroutine exists at any time, and a start issued
\* while tlsConfigUpdateRunning is true returns success without launching one.
C7_AtMostOneUpdater ==
    /\ [](Cardinality(LiveLoops) <= 1)
    /\ [][\A k \in InitIds :
            Starts(k) /\ tlsConfigUpdateRunning
                => loops' = loops /\ inits'[k] = [pc |-> "setcancel", err |-> FALSE]]_vars

\* A second start returned success beside the running goroutine of the first.
C7_Witness ==
    \E k \in InitIds, j \in InitIds :
        /\ loops[k].pc = "select"
        /\ inits[j].pc = "done" /\ ~inits[j].err /\ loops[j].pc = "none"

\* C8: after a refresh that returned nil for configuration c (no other
\* refresh under way), the installed insecureSkipVerify equals c's.
C8_FlagMirrorsLastRefresh ==
    lastRefresh # None /\ tlsMu = Free
        => tlsConfig.InsecureSkipVerify = lastRefresh[1].InsecureSkipVerify

\* The configurations of the refreshes that have written the pool and not yet
\* the flag.
Installing ==
    {c \in Configs :
        \/ cw.pc = "flag" /\ cw.cfg = Some(c)
        \/ \E k \in InitIds : loops[k].pc = "flag" /\ loops[k].cfg = Some(c)}

\* C9: at every instant the pool and the flag a remote call reads come from
\* the same configuration read: a pool written by a later refresh than the
\* flag is never seen beside a flag that differs from that refresh's.
C9_SnapshotFromOneRefresh ==
    TLSSnapshot.pool # TLSSnapshot.flagOf
        => \A c \in Installing : TLSSnapshot.insecure = c.InsecureSkipVerify

\* A refresh for configuration c compares and decides in this transition.
RefreshDecides(c) ==
    \/ cw.pc = "update" /\ cw.cfg = Some(c) /\ cw'.pc # "update"
    \/ \E k \in InitIds :
         loops[k].pc = "update" /\ loops[k].cfg = Some(c) /\ loops'[k].pc # "update"

\* The refresh installs a new pool object built from c's PEM.
InstallsNewPool(c) ==
    /\ tlsConfig'.RootCAs # tlsConfig.RootCAs
    /\ tlsConfig'.RootCAs[1].certs = AppendCertsFromPEM(c.CACert)

\* C10 as stated: a refresh right after a refresh of the same configuration
\* leaves the pool object in place, and a refresh after the PEM text changed
\* installs a new pool built from the new PEM.
C10_SwapIffPEMChanged ==
    [][\A c \in Configs :
         RefreshDecides(c) /\ lastRefresh # None
            => /\ lastRefresh[1] = c => tlsConfig'.RootCAs = tlsConfig.RootCAs
               /\ lastRefresh[1].CACert # c.CACert => InstallsNewPool(c)]_vars

\* C10 amended: a new pool is installed exactly when the certificates of the
\* PEM changed; a PEM text with the same certificates leaves the pool object.
C10_SwapIffCertificatesChanged ==
    [][\A c \in Configs :
         RefreshDecides(c) /\ lastRefresh # None
            => /\ lastRefresh[1] = c => tlsConfig'.RootCAs = tlsConfig.RootCAs
               /\ IF AppendCertsFromPEM(lastRefresh[1].CACert) # AppendCertsFromPEM(c.CACert)
                  THEN InstallsNewPool(c)
                  ELSE tlsConfig'.RootCAs = tlsConfig.RootCAs]_vars

\* A second pool object is installed: a refresh after changed certificates
\* returned nil, following an earlier refresh.
C10_Witness ==
    /\ tlsMu = Free /\ lastRefresh # None
    /\ tlsConfig.RootCAs # None /\ tlsConfig.RootCAs[1].id = 1
    /\ tlsConfig.RootCAs[1].certs = AppendCertsFromPEM(lastRefresh[1].CACert)

\* C11: once the context of a live updater goroutine is cancelled, the
\* goroutine eventually ends with its ticker stopped and
\* tlsConfigUpdateRunning false, whoever holds tlsMu at the cancellation.
C11_CancelledLoopExits ==
    \A k \in InitIds :
        (k \in updCancelled /\ k \in LiveLoops)
            ~> (loops[k].pc = "done" /\ loops[k].ticker = "stopped" /\ ~tlsConfigUpdateRunning)

\* A cancelled goroutine has ended: ticker stopped, running flag cleared.
C11_Witness ==
    \E k \in InitIds :
        /\ k \in updCancelled
        /\ loops[k].pc = "done" /\ loops[k].ticker = "stopped"
        /\ ~tlsConfigUpdateRunning

\* The goroutine of initialize call k takes the ticker case and goes on to
\* refresh from the configuration it read.
TickProcessed(k) == loops[k].pc = "select" /\ loops'[k].pc = "update"

\* C12: once the updater context is cancelled, its goroutine processes no
\* tick: it starts no further refresh.
C12_NoRefreshAfterCancel ==
    [][\A k \in InitIds : k \in updCancelled => ~TickProcessed(k)]_vars

\* The goroutine of initialize call k logs a failed refresh in this step.
TickFails(k) == loops[k].logged # "update failed" /\ loops'[k].logged = "update failed"

\* C13: a tick whose refresh fails leaves the goroutine at its select with
\* the ticker running, returns nothing to any caller, and leaves the
\* installed pool, flag and transport configuration as they were.
C13_FailedTickChangesNothing ==
    [][\A k \in InitIds :
         TickFails(k) => /\ loops'[k].pc = "select" /\ loops'[k].ticker = "on"
                         /\ tlsConfig' = tlsConfig /\ httpClient' = httpClient
                         /\ lastRefresh' = lastRefresh
                         /\ inits' = inits /\ cw' = cw /\ calls' = calls]_vars

\* A tick failed after an earlier refresh installed the certificates of
\* pemA: the goroutine is back at its select and the pool is still there.
C13_Witness ==
    \E k \in InitIds :
        /\ loops[k].logged = "update failed" /\ loops[k].pc = "select"
        /\ loops[k].ticker = "on"
        /\ tlsConfig.RootCAs # None /\ tlsConfig.RootCAs[1].certs = {"certA"}
        /\ httpClient.TLSClientConfig

\* C14: a login about to issue a remote call uses the client, the request
\* context and the deferred cancel function that this same call created.
C14_CallsUseTheirOwn ==
    \A i \in CallIds :
        calls[i].pc \in {"unwrap", "validate"}
            => /\ vc # None /\ vc[1].owner = i
               /\ reqCtx = i
               /\ calls[i].deferred = i

\* C15: between a login's role read and its configuration read no
\* administrative write takes effect (the login would hold the general lock
\* in read mode over both reads).
C15_NoWriteBetweenLoginReads ==
    [][\A i \in CallIds :
         calls[i].pc = "config"
            => storedRoles' = storedRoles /\ storedConfig' = storedConfig]_vars

\* Login call i does its configuration read in this step.
ReadsConfig(i) == calls[i].pc = "config" /\ calls'[i].pc # "config"

\* C16: a login that finds no stored configuration ends in an error
\* response: no fault, no client, no remote call, no credential.
C16_AbsentConfigIsRejected ==
    [][\A i \in CallIds :
         ReadsConfig(i) /\ storedConfig = None /\ calls'[i].err # storageError
            => /\ calls'[i].pc = "done" /\ calls'[i].resp = "rejected"
               /\ calls'[i].unwraps = 0 /\ calls'[i].lookups = 0
               /\ vc' = vc]_vars

NoRoleStored == \A n \in RoleKeys : storedRoles[n] = None

\* Login call i does its field checks and its role read in this step.
ReadsRole(i) == calls[i].pc = "idle" /\ calls'[i].pc # "idle"

\* The call ended in an error response before anything else was done.
RejectedAtOnce(c) ==
    /\ c.pc = "done" /\ c.resp = "rejected"
    /\ c.passed = {} /\ c.unwraps = 0 /\ c.lookups = 0

\* C17: a login naming a role that is not stored ends with the error
\* response "role not found": no configuration read, no unwrap, no lookup,
\* no credential. (A failing storage read is an error, not an absent role.)
C17_AbsentRoleIsRejected ==
    /\ [](\A i \in CallIds : calls[i].err = roleNotFound => RejectedAtOnce(calls[i]))
    /\ [][\A i \in CallIds :
            ReadsRole(i) /\ NoRoleStored /\ calls'[i].err # storageError
                => /\ RejectedAtOnce(calls'[i])
                   /\ calls'[i].err \in {roleFieldMandatory, secretFieldMandatory, roleNotFound}
                   /\ vc' = vc /\ reqCtx' = reqCtx]_vars

\* A login was answered "role not found" while another role is stored.
C17_Witness ==
    \E i \in CallIds :
        /\ calls[i].err = roleNotFound /\ calls[i].resp = "rejected"
        /\ ~NoRoleStored

\* The unwrapped payload of call i, to be resolved by a method that reads
\* the key "secret", does not hold that key.
MissingSecret(i) ==
    /\ calls[i].pc = "resolve"
    /\ calls[i].method \in {WrappedTokenOnly, WrappedAccessorOnly}
    /\ calls[i].reply \in {"auth", "data-other"}

\* C18: with token-only or accessor-only and an unwrapped payload without
\* the key "secret", the resolver returns the missing-field error of the
\* method and the login ends with it: no lookup, no credential.
C18_MissingSecretFails ==
    [][\A i \in CallIds :
         MissingSecret(i) /\ calls'[i] # calls[i]
            => /\ calls'[i].pc = "done" /\ calls'[i].resp = "failed"
               /\ calls'[i].err = IF calls[i].method = WrappedTokenOnly
                                  THEN tokenNotFoundInWrappedData
                                  ELSE accessorNotFoundInWrappedData
               /\ calls'[i].lookups = 0 /\ "lookup" \notin calls'[i].passed]_vars

\* An accessor-only login ended with the missing-field error after its one
\* unwrap call and without a lookup.
C18_Witness ==
    \E i \in CallIds :
        /\ calls[i].pc = "done" /\ calls[i].err = accessorNotFoundInWrappedData
        /\ calls[i].resp = "failed"
        /\ calls[i].unwraps = 1 /\ calls[i].lookups = 0

KnownMethods == {WrappedTokenFull, WrappedTokenOnly, WrappedAccessorOnly}

\* C19: a login whose method is none of the three ends in the resolver with
\* the unknown-method error, without a lookup and without a credential.
C19_UnknownMethodError ==
    [][\A i \in CallIds :
         /\ calls[i].pc \in {"unwrap", "resolve"}
         /\ calls[i].method \notin KnownMethods
         /\ calls'[i].pc = "done"
         => /\ calls'[i].resp = "failed" /\ calls'[i].err = unknownLoginMethod
            /\ calls'[i].lookups = 0]_vars

\* The call went through the unwrap call of the resolver.
ReachedResolver(c) ==
    \/ c.pc \in {"resolve", "validate"}
    \/ c.pc = "done" /\ "config" \in c.passed

\* C20: a login that reaches the resolver issues exactly one unwrap call and
\* at most one lookup call, the lookup only after the resolver succeeded.
C20_OneUnwrapAtMostOneLookup ==
    \A i \in CallIds :
        /\ calls[i].unwraps <= 1 /\ calls[i].lookups <= 1
        /\ ReachedResolver(calls[i]) => calls[i].unwraps = 1
        /\ calls[i].lookups = 1 => calls[i].unwraps = 1 /\ "unwrap" \in calls[i].passed

\* One call ended on a failed unwrap, another on a failed lookup: each
\* issued its calls once.
C20_Witness ==
    \E i \in CallIds, j \in CallIds :
        /\ calls[i].pc = "done" /\ calls[i].err = remoteError
        /\ calls[i].unwraps = 1 /\ calls[i].lookups = 0
        /\ calls[j].pc = "done" /\ calls[j].err = remoteError
        /\ calls[j].unwraps = 1 /\ calls[j].lookups = 1

\* C21: the lookup request of validateSecret goes to the accessor-lookup path
\* with payload key "accessor" exactly when the method is accessor-only; for
\* every other method it goes to the token-lookup path with payload key
\* "token".
C21_LookupRouting ==
    vsOut # None =>
        IF vsOut[1].method = "accessor-only"
        THEN vsOut[1].path = "auth/token/lookup-accessor" /\ vsOut[1].key = "accessor"
        ELSE vsOut[1].path = "auth/token/lookup" /\ vsOut[1].key = "token"

\* An accessor-only call sent its request to the accessor-lookup path.
C21_Witness ==
    /\ vsOut # None
    /\ vsOut[1].method = WrappedAccessorOnly
    /\ vsOut[1].path = accessorLookupPath
    /\ vsOut[1].key = accessorPayloadKey

C23_StoredRolesHaveEntityID ==
    /\ \A n \in RoleKeys : storedRoles[n] # None => storedRoles[n][1].EntityID # ""
    /\ admin.last # None =>
           LET q == admin.last[1] IN
           q.handler = "roleWrite" /\ q.op = "create" /\ q.in.entity_id = None
               => q.out # "ok"

\* C24: after any sequence of role writes every stored role has
\* TokenMaxTTL = 0 or TokenTTL <= TokenMaxTTL, and a write answered with the
\* TTL error response leaves the stored roles as they were.
C24_StoredTTLWithinMax ==
    /\ [](\A n \in RoleKeys :
            storedRoles[n] # None =>
                LET t == storedRoles[n][1].TokenParams IN
                t.TokenMaxTTL = 0 \/ t.TokenTTL <= t.TokenMaxTTL)
    /\ [][(admin' # admin /\ admin'.last # None /\
            admin'.last[1].out = "token_max_ttl must be greater than token_ttl")
              => storedRoles' = storedRoles]_vars

\* An update that raises the TTL of a stored role above its maximum was
\* answered with the TTL error response, the stored role as before.
C24_Witness ==
    /\ admin.last # None
    /\ admin.last[1].handler = "roleWrite"
    /\ admin.last[1].op = "update"
    /\ admin.last[1].in.token_ttl = Some(2)
    /\ admin.last[1].in.token_max_ttl = None
    /\ admin.last[1].out = "token_max_ttl must be greater than token_ttl"
    /\ storedRoles["sample"] # None
    /\ storedRoles["sample"][1].TokenParams.TokenTTL = 1
    /\ storedRoles["sample"][1].TokenParams.TokenMaxTTL = 1

\* C27: a role read right after its create was answered without error has
\* the entity_id, entity_meta, strict_meta_verify and token fields of the
\* create, with strict_meta_verify false, no metadata, no policies, zero TTLs
\* and token type "default" for the fields the create did not supply.
C27_RoleRoundTrip ==
    admin.last # None =>
        LET q == admin.last[1]
            d == q.in
        IN  q.handler = "roleWrite" /\ q.op = "create" /\ q.out = "ok" =>
                roleRead(q.name) =
                    Some([entity_id |-> d.entity_id[1],
                          entity_meta |-> IF d.entity_meta = None THEN NilMap
                                          ELSE MakeMap(d.entity_meta[1]),
                          strict_meta_verify |-> IF d.strict_meta_verify = None THEN FALSE
                                                 ELSE d.strict_meta_verify[1],
                          token |-> [token_policies |-> <<>>,
                                     token_ttl |-> IF d.token_ttl = None THEN 0
                                                   ELSE d.token_ttl[1],
                                     token_max_ttl |-> IF d.token_max_ttl = None THEN 0
                                                       ELSE d.token_max_ttl[1],
                                     token_bound_cidrs |-> <<>>,
                                     token_num_uses |-> 0,
                                     token_period |-> 0,
                                     token_type |-> "default"]])

\* A create that supplied metadata and a TTL but no strict_meta_verify and no
\* maximum TTL was answered without error.
C27_Witness ==
    /\ admin.last # None
    /\ admin.last[1].handler = "roleWrite"
    /\ admin.last[1].op = "create"
    /\ admin.last[1].out = "ok"
    /\ admin.last[1].name = "SAMPLE"
    /\ admin.last[1].in = [entity_id |-> Some("E1"), entity_meta |-> Some({<<"env", "prod">>}),
                           strict_meta_verify |-> None, token_ttl |-> Some(2),
                           token_max_ttl |-> None]
    /\ roleRead("sample") # None
    /\ roleRead("sample")[1].token.token_ttl = 2
    /\ ~roleRead("sample")[1].strict_meta_verify

\* C28: role names are case-insensitive. For the names "sample" and "SAMPLE",
\* which differ only in letter case: the role getter, the read and the
\* existence check answer the same for both; a write or a delete answered
\* without error under either one changes the record keyed "sample"; and a
\* login under either one finds the role stored under "sample".
C28_NamesIgnoreCase ==
    /\ [](/\ role("SAMPLE") = storedRoles["sample"]
          /\ role("sample") = storedRoles["sample"]
          /\ roleRead("SAMPLE") = roleRead("sample")
          /\ roleExistenceCheck("SAMPLE") = (storedRoles["sample"] # None)
          /\ roleExistenceCheck("sample") = (storedRoles["sample"] # None)
          /\ admin.last # None =>
                LET q == admin.last[1] IN
                /\ q.handler = "roleWrite" /\ q.out = "ok" /\ q.name \in {"sample", "SAMPLE"}
                       => /\ storedRoles["sample"] # None
                          /\ q.in.entity_id # None =>
                                 storedRoles["sample"][1].EntityID = q.in.entity_id[1]
                          /\ q.in.entity_meta # None =>
                                 storedRoles["sample"][1].EntityMeta =
                                     MakeMap(q.in.entity_meta[1])
                /\ q.handler = "roleDelete" /\ q.out = "ok" /\ q.name \in {"sample", "SAMPLE"}
                       => storedRoles["sample"] = None)
    /\ [][\A i \in CallIds, n \in {"sample", "SAMPLE"}, m \in Methods :
            storedRoles["sample"] # None /\ login_Role(i, n, TRUE, m)
                => \/ calls'[i].pc = "config" /\ calls'[i].role = storedRoles["sample"]
                   \/ calls'[i].pc = "done" /\ calls'[i].err = storageError]_vars

\* A role written under "SAMPLE" is read under "sample", and a login found it.
C28_Witness ==
    /\ admin.last # None
    /\ admin.last[1].handler = "roleWrite"
    /\ admin.last[1].name = "SAMPLE"
    /\ admin.last[1].out = "ok"
    /\ roleRead("sample") # None
    /\ \E i \in CallIds : calls[i].pc = "config" /\ calls[i].role = storedRoles["sample"]

\* C29: right after a role delete was answered without error the role getter
\* returns absent for that name, and it does so until a role write is
\* answered without error; a login that reads the role meanwhile is rejected
\* as role not found (or fails on the storage); a delete of a name that has
\* no role is answered without error too and leaves the stored roles as they
\* were.
C29_DeletedRoleIsAbsent ==
    /\ [](admin.last # None =>
            LET q == admin.last[1] IN
            q.handler = "roleDelete" /\ q.out = "ok" => role(q.name) = None)
    /\ [][
           /\ role("sample") = None /\ role("sample")' # None
                 => /\ admin'.last # None
                    /\ admin'.last[1].handler = "roleWrite"
                    /\ admin'.last[1].out = "ok"
           /\ \A i \in CallIds, n \in {"sample", "SAMPLE"}, m \in Methods :
                 role(n) = None /\ login_Role(i, n, TRUE, m)
                    => /\ calls'[i].pc = "done"
                       /\ calls'[i].resp \in {"rejected", "failed"}
                       /\ calls'[i].err \in {roleNotFound, storageError}
           /\ \A k \in {"sample", "SAMPLE"} :
                 role(k) = None /\ roleDelete(k) => storedRoles' = storedRoles
       ]_vars

\* A stored role was deleted without error, and a login was then rejected as
\* role not found.
C29_Witness ==
    /\ admin.last # None
    /\ admin.last[1].handler = "roleDelete"
    /\ admin.last[1].out = "ok"
    /\ role(admin.last[1].name) = None
    /\ \E i \in CallIds : calls[i].pc = "done" /\ calls[i].err = roleNotFound

\* C25: after any sequence of configuration writes the stored configuration
\* is absent or has a non-empty cluster address, and a write without a
\* cluster address is answered with an error response and leaves the stored
\* configuration and the installed trust material as they were.
C25_StoredConfigHasCluster ==
    /\ [](/\ storedConfig # None => storedConfig[1].Cluster # ""
          /\ admin.last # None /\ admin.last[1].in.Cluster = ""
                => admin.last[1].out = "cluster must be provided")
    /\ [][(admin' # admin /\ admin'.last # None /\
            admin'.last[1].out = "cluster must be provided")
              => UNCHANGED <<storedConfig, tlsConfig, httpClient, lastRefresh>>]_vars

\* With a configuration stored and its trust material installed, a write
\* without a cluster address was answered with the error response.
C25_Witness ==
    /\ admin.last # None
    /\ admin.last[1].in.Cluster = ""
    /\ admin.last[1].in.CACert = "pemA"
    /\ admin.last[1].out = "cluster must be provided"
    /\ storedConfig # None /\ storedConfig[1].CACert = ""
    /\ tlsConfig.RootCAs # None /\ tlsConfig.RootCAs[1].certs = {}

C30_EmptyPEMInstallsEmptyPool ==
    lastRefresh # None /\ AppendCertsFromPEM(lastRefresh[1].CACert) = {} /\ tlsMu = Free
        => /\ tlsConfig.RootCAs # None
           /\ tlsConfig.RootCAs[1].certs = {}
           /\ tlsConfig.InsecureSkipVerify = lastRefresh[1].InsecureSkipVerify

\* The tick of goroutine k is skipped: the trace "update skipped" is logged.
TickSkips(k) == loops[k].logged # "update skipped" /\ loops'[k].logged = "update skipped"

\* C31: a tick that finds no stored configuration returns without error (it
\* logs the skip, no failure, and the goroutine is back at its select) and
\* changes neither the installed pool and flag, nor the transport, nor the
\* running state; only a tick that found a configuration goes on to
\* b.updateTLSConfig.
C31_AbsentConfigIsSkipped ==
    /\ [](\A k \in InitIds : loops[k].pc \in {"update", "flag", "transport"}
                                 => loops[k].cfg # None)
    /\ [][\A k \in InitIds :
             TickSkips(k) =>
                 /\ storedConfig = None
                 /\ loops'[k].pc = "select"
                 /\ UNCHANGED <<tlsConfig, httpClient, tlsConfigUpdateRunning,
                                tlsConfigUpdateCancel, lastRefresh, storedConfig>>]_vars

\* A tick was skipped while a pool installed by a configuration write whose
\* storage put failed is in place, and the updater is running.
C31_Witness ==
    \E k \in InitIds :
        /\ loops[k].logged = "update skipped"
        /\ loops[k].pc = "select"
        /\ storedConfig = None
        /\ tlsConfig.RootCAs # None
        /\ tlsConfig.RootCAs[1].certs = {"certA"}
        /\ tlsConfigUpdateRunning

\* C32: a start on a backend whose HTTP client or TLS configuration is unset
\* fails with the precondition error (initialize returns it and cancels its
\* context); no goroutine is launched, no ticker is created and
\* tlsConfigUpdateRunning stays false; a start on a backend that has both
\* does not fail.
C32_StartNeedsMaterial ==
    /\ [](~(httpClient.set /\ tlsConfig.set) =>
            /\ ~tlsConfigUpdateRunning
            /\ tlsConfigUpdateCancel = 0
            /\ \A k \in InitIds : loops[k].pc = "none" /\ loops[k].ticker = "none")
    /\ [](\A k \in InitIds : inits[k].err => ~(httpClient.set /\ tlsConfig.set))
    /\ [][\A k \in InitIds :
             Starts(k) /\ ~(httpClient.set /\ tlsConfig.set) =>
                 /\ inits'[k] = [pc |-> "done", err |-> TRUE]
                 /\ k \in updCancelled'
                 /\ tlsMu' = Free
                 /\ UNCHANGED <<loops, tlsConfigUpdateRunning, tlsConfigUpdateCancel>>]_vars

\* A start failed on a backend that has an HTTP client and no TLS
\* configuration, and a later stop found nothing to cancel.
C32_Witness ==
    \E k \in InitIds :
        /\ httpClient.set /\ ~tlsConfig.set
        /\ inits[k] = [pc |-> "done", err |-> TRUE]
        /\ k \in updCancelled
        /\ loops[k].pc = "none" /\ loops[k].ticker = "none"
        /\ ~tlsConfigUpdateRunning

\* A call of cleanup returns in this transition.
Stops == admin' # admin /\ admin'.last # None /\ admin'.last[1].handler = "cleanup"

\* C33: cleanup can be called any number of times and with no successful
\* start before it: a call made while no cancel function is stored changes
\* nothing of the backend, a call made while one is stored cancels that
\* context and no other, and every call leaves no cancel function stored, so
\* that the call after it changes nothing.
C33_StopIsIdempotent ==
    [][Stops =>
         /\ tlsConfigUpdateCancel' = 0
         /\ updCancelled' = updCancelled \cup ({tlsConfigUpdateCancel} \cap InitIds)
         /\ UNCHANGED <<storedConfig, storedRoles, httpClient, tlsConfig,
                        tlsConfigUpdateRunning, mu, tlsMu, inits, loops, cw, lastRefresh>>
         /\ tlsConfigUpdateCancel = 0 => UNCHANGED backendVars]_vars

\* A call of cleanup found no cancel function stored after an earlier call
\* had cancelled the context of a successful start.
C33_Witness ==
    /\ admin.last # None
    /\ admin.last[1].handler = "cleanup"
    /\ admin.last[1].in.cancel = 0
    /\ tlsConfigUpdateCancel = 0
    /\ \E k \in InitIds : k \in updCancelled /\ ~inits[k].err

\* C34: for every role name the identity pre-lookup ends with the alias of
\* the stored role or with an error, never with a fault, changes nothing of
\* the backend (no client is built, no remote call made), and the alias it
\* returns is the alias name of the credential a login with that role mints.
C34_LookaheadNeverFaults ==
    vsOut # None =>
        /\ vsOut[1].err # nilDereference
        /\ vsOut[1].alias # None \/ vsOut[1].err # ""
        /\ vsOut[1].alias # None =>
              /\ vsRole # None
              /\ vsOut[1].alias = Some(loginAuth(vsData.role, vsRole[1]).Alias.Name)
        /\ vc = None

\* An updater goroutine is at work and its context is not cancelled.
Ticking ==
    \E k \in InitIds : /\ loops[k].pc \in {"select", "update", "flag", "transport"}
                        /\ k \notin updCancelled

\* The installed pool holds the certificates of the stored CA PEM.
PoolOfStored ==
    /\ storedConfig # None
    /\ tlsConfig.RootCAs # None
    /\ tlsConfig.RootCAs[1].certs = AppendCertsFromPEM(storedConfig[1].CACert)

\* C35: if from some point on no configuration write is under way, a
\* configuration is stored and an updater goroutine keeps ticking, then from
\* some point on the installed pool holds the certificates of the stored
\* configuration's CA PEM, whatever ticks and writes interleaved before.
C35_PoolConverges ==
    <>[](cw.pc = "idle" /\ storedConfig # None /\ Ticking) => <>[]PoolOfStored

\* A tick that read the stored configuration installs its pool while a write
\* of other certificates is between its trust-material update and its
\* storage put.
C35_Witness ==
    /\ cw.pc = "put"
    /\ storedConfig # None
    /\ \E k \in InitIds :
         /\ loops[k].pc = "transport"
         /\ loops[k].cfg = storedConfig
         /\ AppendCertsFromPEM(loops[k].cfg[1].CACert) # AppendCertsFromPEM(cw.cfg[1].CACert)

\* C36: once cleanup has run with no initialize call under way (no cancel
\* function is stored), the context of every updater goroutine still alive
\* is cancelled, so that under fair scheduling each of them ends.
C36_StopReachesEveryLoop ==
    (tlsConfigUpdateCancel = 0 /\ \A k \in InitIds : inits[k].pc \in {"idle", "done"})
        => \A k \in LiveLoops : k \in updCancelled

\* C37: while the last of the starts and stops is a start that returned
\* success (no cleanup was called since runTLSConfigUpdater returned nil), an
\* updater goroutine is alive.
C37_StartedMeansRunning ==
    (admin.last # None /\ admin.last[1].handler = "runTLSConfigUpdater"
                       /\ admin.last[1].out = "ok")
        => LiveLoops # {}

\* The certificates of a pool, none for the nil pool.
certsOf(pool) == IF pool = None THEN {} ELSE pool[1].certs

\* C38: when a configuration write has returned an error or an error
\* response, the stored configuration, the certificates of the installed
\* pool and the installed flag are those the write found.
C38_FailedWriteChangesNothing ==
    (/\ admin.last # None
     /\ admin.last[1].handler = "pathConfigWrite"
     /\ admin.last[1].out \notin {"pending", "ok"})
        => /\ storedConfig = admin.before[1].storedConfig
           /\ certsOf(tlsConfig.RootCAs) = certsOf(admin.before[1].RootCAs)
           /\ tlsConfig.InsecureSkipVerify = admin.before[1].InsecureSkipVerify

\* The steps of the task that holds tlsMu, and of the task that holds mu.
TlsHolderStep ==
    \/ tlsMu = CfgW /\ (pathConfigWrite_Flag \/ pathConfigWrite_Transport)
    \/ \E k \in InitIds :
         \/ tlsMu = InitTask(k) /\ (loop_Running(k) \/ initialize_Return(k))
         \/ tlsMu = LoopTask(k) /\ (loop_Flag(k) \/ loop_Transport(k))

MuHolderStep ==
    mu = CfgW /\ (pathConfigWrite_Update \/ pathConfigWrite_Flag \/
                  pathConfigWrite_Transport \/ pathConfigWrite_Put)

\* C39: no interleaving deadlocks. The task that holds tlsMu can always take
\* its next step (for initialize: its goroutine can, then it can); the task
\* that holds mu can take its next step or waits for tlsMu held by another
\* task; a task holds tlsMu together with mu only if it took mu first, and
\* no task takes mu while it holds tlsMu.
C39_NoDeadlock ==
    /\ [](tlsMu # Free => ENABLED TlsHolderStep)
    /\ [](mu # Free => \/ ENABLED MuHolderStep
                       \/ cw.pc = "update" /\ tlsMu \notin {Free, CfgW})
    /\ [](tlsMu = CfgW => mu = CfgW)
    /\ [][/\ (tlsMu' = CfgW /\ tlsMu # CfgW) => (mu = CfgW /\ mu' = CfgW)
          /\ (mu' # mu /\ mu = Free) => (mu' = CfgW /\ tlsMu # CfgW)]_vars

\* The configuration write holds both locks while a tick waits for tlsMu and
\* a login is under way.
C39_Witness ==
    /\ mu = CfgW /\ tlsMu = CfgW /\ cw.pc = "flag"
    /\ \E k \in InitIds : loops[k].pc = "update"
    /\ \E i \in CallIds : calls[i].pc \notin {"idle", "done"}

\* A role write is answered without error in this transition.
RoleWritten ==
    /\ admin' # admin \/ storedRoles' # storedRoles
    /\ admin'.last # None
    /\ admin'.last[1].handler = "roleWrite"
    /\ admin'.last[1].out = "ok"

\* The value of a field after a write: the supplied one, else the one given.
supplied(field, kept) == IF field # None THEN field[1] ELSE kept

\* C40: a role write answered without error stores, for every field, the
\* supplied value or else the value of its starting point: the defaults for
\* a create, whatever was stored, and for any write on a name with no stored
\* role; the stored role for an update on a name that has one.
C40_CreateResetsUpdateKeeps ==
    [][RoleWritten =>
         LET q == admin'.last[1]
             d == q.in
             old == role(q.name)
             from == IF q.op = "create" \/ old = None THEN newRoleEntry ELSE old[1]
             new == storedRoles'[ToLower(q.name)]
         IN  /\ new # None
             /\ new[1].EntityID = supplied(d.entity_id, from.EntityID)
             /\ new[1].EntityMeta = IF d.entity_meta # None THEN MakeMap(d.entity_meta[1])
                                    ELSE from.EntityMeta
             /\ new[1].StrictMetaVerify = supplied(d.strict_meta_verify, from.StrictMetaVerify)
             /\ new[1].TokenParams =
                    [from.TokenParams EXCEPT
                       !.TokenTTL = supplied(d.token_ttl, from.TokenParams.TokenTTL),
                       !.TokenMaxTTL = supplied(d.token_max_ttl, from.TokenParams.TokenMaxTTL)]
       ]_vars

\* An update that supplied strict_meta_verify alone was answered without
\* error, and the role still has the TTL and the metadata stored before it.
C40_Witness ==
    /\ admin.last # None
    /\ admin.last[1].handler = "roleWrite"
    /\ admin.last[1].op = "update"
    /\ admin.last[1].out = "ok"
    /\ admin.last[1].in = [entity_id |-> None, entity_meta |-> None,
                           strict_meta_verify |-> Some(TRUE), token_ttl |-> None,
                           token_max_ttl |-> None]
    /\ storedRoles["sample"] # None
    /\ storedRoles["sample"][1].EntityID = "E1"
    /\ storedRoles["sample"][1].EntityMeta = MakeMap({<<"env", "prod">>})
    /\ storedRoles["sample"][1].TokenParams.TokenTTL = 1

====
